---- MODULE Spec2Model ----
(***************************************************************************)
(* Model of the trading core: PositionManager (the position ledger),       *)
(* TradingEngine (control loop, capital accounting, daily rollover),       *)
(* RiskManager (the gate before an entry), MarketDataManager (the stream   *)
(* thread, its reconnects and the watchdog), StrategyEngine (the signal    *)
(* cache), AIOrchestrator (the ENTRY gate and its warmup), the engine's    *)
(* event channel and the StateManager document they share.                 *)
(*                                                                         *)
(* Numbers.  The code computes in floats; the model uses exact integers:   *)
(*   - money is counted in half micro-USDT (USDT units per 1 USDT), so     *)
(*     that half of a realized PnL (pnl * 0.5) is an integer;              *)
(*   - quantities are counted in steps of 10^-6 coin (QtyStep per coin),   *)
(*     the resolution of f"{qty:.6f}";                                     *)
(*   - prices are whole USDT; tp_price and sl_price are kept in hundredths *)
(*     of a USDT (price * (100 +/- pct)), 0 standing for None.             *)
(* Threads.  The control loop runs on its own thread, and nothing stops a  *)
(* second loop thread from running beside the first (start_trading after   *)
(* stop_trading clears the stop event the first thread has not observed).  *)
(* Loop threads, the ingestion thread (Tick) and the GUI thread            *)
(* (ManualClose, set_paper_mode, start/stop) interleave at the calls that  *)
(* block or release the interpreter lock: file writes of                   *)
(* StateManager.save_state, time.sleep and os.urandom (uuid4).  Each       *)
(* action below is the code between two such points; the methods of        *)
(* PositionManager and the ledger updates are taken as indivisible between *)
(* them.  A live order and the exchange's answer to it are taken within   *)
(* the step that sends it.  SpecRace alone goes below that grain: the      *)
(* interpreter may switch threads between any two bytecodes, so there      *)
(* update_price and _execute_close are taken statement by statement.       *)
(* Clock.  now counts the seconds of a run; time.time() reads clock_epoch  *)
(* later, the timeouts and cooldowns are scaled to a few seconds.          *)
(***************************************************************************)
EXTENDS Integers, Sequences, FiniteSets, TLC

\* ------------------------------------------------------------------ bounds
MaxThreads == 2
MaxPositions == 2
MaxDayPositions == 1
MaxDay == 2
MaxRollovers == 3
MaxClock == 4
MaxReconnect == 5
MaxSaves == 3
MaxPreloads == 2

Threads == 1 .. MaxThreads
PositionIds == 1 .. MaxPositions
Preloaders == 1 .. MaxPreloads
Days == 1 .. MaxDay

\* ------------------------------------------------------- units and settings
USDT == 2000000
QtyStep == 1000000

StepValue == USDT \div QtyStep

SymbolOrder == <<"BTCUSDT">>
Symbols == {SymbolOrder[i] : i \in 1 .. Len(SymbolOrder)}

\* the watchlists the state document takes, and the symbols they name
WatchLists == {<<"BTCUSDT">>, <<"BTCUSDT", "ETHUSDT">>}
AllSymbols == {"BTCUSDT", "ETHUSDT"}

Prices == {64000, 65000}

trade_usdt == 10 * USDT
trade_usdt_min == 2 * USDT
RequestedTradeUsdt == {trade_usdt_min, trade_usdt}
ManualQty == 50000

InitialPaperBalance == 5 * USDT
max_bot_balance == 1000 * USDT
min_trade_usdt == 2 * USDT
default_sl_pct == 2
default_tp_pct == 3
default_trailing_sl_pct == 1
take_profit_pct == 3
stop_loss_pct == 2
trailing_sl_pct == 1
max_open_trades == 5
max_trades_per_symbol == 2
loss_cooldown_sec == 2
reentry_delay_sec == 3
clock_epoch == 10

NoDate == 0

VARIABLES
    today,              \* the calendar date date.today() returns
    prices,             \* MarketDataManager.prices, 0 = no price yet
    paper_mode,         \* TradingEngine.paper_mode
    bot_status,         \* TradingEngine.bot_status
    stop_event,         \* TradingEngine._stop_event
    thr,                \* the loop threads: position and locals of each
    open_positions,     \* PositionManager.open_positions, id -> position
    closed_positions,   \* PositionManager.closed_positions, newest first
    next_id,            \* number of position ids handed out (uuid4)
    st,                 \* the capital ledger keys of StateManager.state
    disk,               \* the document last written by save_state
    rollover_count,     \* per date: how often the day reset has been applied
    split_count,        \* per date: how often the profit split has been applied
    now,                \* the clock time.time() reads, in seconds
    watchlist,          \* StateManager.state["watchlist"]
    outputs,            \* the symbols of StrategyEngine.outputs, in dict order
    market,             \* the fields of MarketDataManager
    mthr,               \* the threads inside MarketDataManager and its callers
    hist,               \* history kept for the properties
    fs,                 \* the state file, its temp file and the save_state calls
    orders,             \* the orders the last engine call sent to the exchange
    events,             \* the engine's event channel and the entry-reject log
    exit_recs,          \* the list check_exit_recommendations returned last
    ai,                 \* the AIOrchestrator: start time, cache, last thresholds
    strategy            \* the StrategyEngine: cached signals, 1h trends, last notification

market_vars == <<now, watchlist, outputs, market, mthr, hist, fs>>

stream_vars == <<market_vars, orders, events, exit_recs, ai, strategy>>

engine_vars == <<today, paper_mode, bot_status, stop_event, thr, closed_positions,
                 next_id, st, rollover_count, split_count>>

vars == <<today, prices, paper_mode, bot_status, stop_event, thr, open_positions,
          closed_positions, next_id, st, disk, rollover_count, split_count,
          now, watchlist, outputs, market, mthr, hist, fs, orders, events, exit_recs, ai, strategy>>

\* ======================================================== PositionManager
None == "None"

\* has_open_bot_position: some open bot position on the symbol
has_open_bot_position(open, sym) ==
    \E id \in DOMAIN open :
        /\ open[id].symbol = sym
        /\ open[id].status = "open"
        /\ open[id].source = "bot"

\* bot_positions_sym of _apply_ai_decision, as the ids
BotPositionsOf(open, sym) ==
    {id \in DOMAIN open : open[id].symbol = sym /\ open[id].source = "bot"}

\* pnl_usdt = (price - entry) * qty, in money units
PnlUsdt(price, entry, qty) == (price - entry) * qty * StepValue

\* the position dict open_position builds; tp/sl 0, use_trailing None and
\* trailing_sl_pct -1 stand for arguments left at None, filled from settings
NewPosition(id, sym, source, entry_price, qty, mode, tp_arg, sl_arg, tr_arg, pct_arg) ==
    LET fallback == tp_arg = 0 \/ sl_arg = 0 \/ tr_arg = None \/ pct_arg = -1
        tp == IF fallback /\ tp_arg = 0 /\ take_profit_pct > 0
              THEN entry_price * (100 + take_profit_pct) ELSE tp_arg
        sl == IF fallback /\ sl_arg = 0 /\ stop_loss_pct > 0
              THEN entry_price * (100 - stop_loss_pct) ELSE sl_arg
        tr == IF tr_arg = None THEN TRUE ELSE tr_arg = "True"
        pct == IF pct_arg = -1 THEN trailing_sl_pct ELSE pct_arg
    IN [id |-> id,
        symbol |-> sym,
        source |-> source,
        entry_price |-> entry_price,
        qty |-> qty,
        current_price |-> entry_price,
        pnl_usdt |-> 0,
        tp_price |-> tp,
        sl_price |-> sl,
        use_trailing |-> IF source = "bot" THEN tr ELSE FALSE,
        trailing_sl_pct |-> pct,
        peak_price |-> entry_price,
        status |-> "open",
        mode |-> mode,
        exit_reason |-> None]

\* variant: the stop follows the price in both directions
TrailingStopFollow(pos, price) ==
    IF pos.source = "bot" /\ pos.use_trailing /\ pos.sl_price # 0
       /\ pos.trailing_sl_pct > 0
    THEN price * (100 - pos.trailing_sl_pct)
    ELSE pos.sl_price

\* the trailing ratchet of update_price: the new sl_price
TrailingStop(pos, price) ==
    IF pos.source = "bot" /\ pos.use_trailing /\ pos.sl_price # 0
       /\ price > pos.peak_price /\ pos.trailing_sl_pct > 0
       /\ price * (100 - pos.trailing_sl_pct) > pos.sl_price
    THEN price * (100 - pos.trailing_sl_pct)
    ELSE pos.sl_price

\* the new peak_price of update_price
TrailingPeak(pos, price) ==
    IF pos.source = "bot" /\ pos.use_trailing /\ pos.sl_price # 0
       /\ price > pos.peak_price
    THEN price
    ELSE pos.peak_price

\* variant: the PnL is computed before the new price is stored
UpdatePositionStale(pos, price) ==
    [pos EXCEPT !.current_price = price,
                !.pnl_usdt = PnlUsdt(pos.current_price, pos.entry_price, pos.qty),
                !.peak_price = TrailingPeak(pos, price),
                !.sl_price = TrailingStop(pos, price)]

\* the body of the loop of update_price for one position
UpdatePosition(pos, price) ==
    [pos EXCEPT !.current_price = price,
                !.pnl_usdt = PnlUsdt(price, pos.entry_price, pos.qty),
                !.peak_price = TrailingPeak(pos, price),
                !.sl_price = TrailingStop(pos, price)]

\* update_price: every open position on the symbol, nothing for price <= 0
update_price(open, sym, price) ==
    IF price <= 0 THEN open
    ELSE [id \in DOMAIN open |->
            IF open[id].symbol = sym /\ open[id].status = "open"
            THEN UpdatePosition(open[id], price)
            ELSE open[id]]

\* no call of check_exit_recommendations yet
NoRecs == <<>>

\* variant: the stop is looked at before the take-profit and a trailing
\* stop is reported as a plain one
ExitReasonPlain(pos, price) ==
    IF pos.sl_price # 0 /\ price * 100 <= pos.sl_price THEN "SL"
    ELSE IF pos.tp_price # 0 /\ price * 100 >= pos.tp_price THEN "TP"
         ELSE None

\* the verdict of check_exit_recommendations for one position, None = none
ExitReason(pos, price) ==
    IF pos.tp_price # 0 /\ price * 100 >= pos.tp_price THEN "TP"
    ELSE IF pos.sl_price # 0 /\ price * 100 <= pos.sl_price
         THEN (IF pos.use_trailing THEN "TRAILING_SL" ELSE "SL")
         ELSE None

\* check_exit_recommendations: the ids of the open bot positions on the
\* symbol that get a recommendation
check_exit_recommendations(open, sym, price) ==
    IF price <= 0 THEN {}
    ELSE {id \in DOMAIN open :
            /\ open[id].status = "open"
            /\ open[id].symbol = sym
            /\ open[id].source = "bot"
            /\ ExitReason(open[id], price) # None}

\* variant: no guard on the source
CanCloseAnySource(open, id) ==
    /\ id \in DOMAIN open
    /\ open[id].status = "open"

\* the guards of close_position: the call goes through
CanClose(open, id) ==
    /\ id \in DOMAIN open
    /\ open[id].status = "open"
    /\ open[id].source # "manual"

\* the position as close_position leaves it
ClosedPosition(pos, exit_price, reason) ==
    [pos EXCEPT !.current_price = exit_price,
                !.pnl_usdt = PnlUsdt(exit_price, pos.entry_price, pos.qty),
                !.status = "closed",
                !.exit_reason = reason]

\* a function without one key (dict.pop)
Pop(f, k) == [x \in DOMAIN f \ {k} |-> f[x]]

\* the document save_state writes: the position lists and the ledger keys
Doc(open, closed, s) == [open_positions |-> open, closed_positions |-> closed, st |-> s]

\* variant: the closed position stays in the open map
close_position_keep(L, id, exit_price, reason) ==
    IF ~CanClose(L.open, id)
    THEN [ok |-> FALSE, open |-> L.open, closed |-> L.closed, disk |-> L.disk, pnl |-> 0]
    ELSE LET pos == ClosedPosition(L.open[id], exit_price, reason)
             open == [L.open EXCEPT ![id] = pos]
             closed == <<pos>> \o L.closed
         IN [ok |-> TRUE,
             open |-> open,
             closed |-> closed,
             disk |-> Doc(open, closed, L.st),
             pnl |-> pos.pnl_usdt]

\* close_position on L = [open, closed, st, disk, ...], disk being the
\* document on file: ok = FALSE is the None result; a close moves the
\* position to the head of the history and writes both lists through
close_position(L, id, exit_price, reason) ==
    IF ~CanClose(L.open, id)
    THEN [ok |-> FALSE, open |-> L.open, closed |-> L.closed, disk |-> L.disk, pnl |-> 0]
    ELSE LET pos == ClosedPosition(L.open[id], exit_price, reason)
             open == Pop(L.open, id)
             closed == <<pos>> \o L.closed
         IN [ok |-> TRUE,
             open |-> open,
             closed |-> closed,
             disk |-> Doc(open, closed, L.st),
             pnl |-> pos.pnl_usdt]

\* ========================================================== TradingEngine
Min(S) == CHOOSE x \in S : \A y \in S : x <= y

\* the live client exists in live mode (API keys are configured) and is
\* dropped in paper mode
HasClient(pm) == ~pm

\* float(f"{x:.6f}") of the quotient n / d: round to nearest, ties to even
RoundHalfEven(n, d) ==
    LET q == n \div d
        r == n % d
    IN IF 2 * r < d THEN q
       ELSE IF 2 * r > d THEN q + 1
       ELSE IF q % 2 = 0 THEN q ELSE q + 1

\* _normalize_quantity of qty_raw = req_usdt / price, in quantity steps (the
\* quotient req_usdt / (price * StepValue)); live mode floors to the exchange
\* lot step (one quantity step here)
normalize_quantity(pm, req_usdt, price) ==
    IF req_usdt <= 0 \/ price <= 0 THEN 0
    ELSE IF pm THEN RoundHalfEven(req_usdt, price * StepValue)
    ELSE req_usdt \div (price * StepValue)

\* price * qty in money units
Notional(price, qty) == price * qty * StepValue

\* variant: the debit without the balance check and the floor at zero
PaperDebitUnchecked(paper_bal, trade_amount) ==
    [ok |-> TRUE, balance |-> paper_bal - trade_amount]

\* the paper debit of _execute_entry: rejected when the balance is short
PaperDebit(paper_bal, trade_amount) ==
    IF trade_amount > paper_bal
    THEN [ok |-> FALSE, balance |-> paper_bal]
    ELSE [ok |-> TRUE, balance |-> IF paper_bal - trade_amount > 0
                                   THEN paper_bal - trade_amount ELSE 0]

\* variant: the request is not clipped
ClipRequestNone(req_usdt, paper_bal) == req_usdt

\* "Clip by paper balance" of _apply_ai_decision
ClipRequest(req_usdt, paper_bal) == IF req_usdt < paper_bal THEN req_usdt ELSE paper_bal

\* RiskManager.check_new_position; the two time conditions (cooldown after a
\* loss, re-entry delay) are decided by the clock and enter as cooldown_over
check_new_position(sym, open_all, cooldown_over) ==
    IF ~cooldown_over THEN FALSE
    ELSE IF max_open_trades > 0 /\ Cardinality(DOMAIN open_all) >= max_open_trades THEN FALSE
    ELSE IF max_trades_per_symbol > 0
            /\ Cardinality({id \in DOMAIN open_all : open_all[id].symbol = sym})
                 >= max_trades_per_symbol THEN FALSE
    ELSE TRUE

\* variant: the marker is not looked at
SplitAppliesUnmarked(s) == s.daily_date # NoDate

\* the profit split applies: there is a closing date and it is not marked
SplitApplies(s) ==
    /\ s.daily_date # NoDate
    /\ s.last_profit_split_date # s.daily_date

\* _apply_daily_profit_split on the ledger keys
apply_daily_profit_split(s) ==
    IF ~SplitApplies(s) THEN s
    ELSE LET pnl == s.realized_pnl_today
             capital == IF s.capital_usdt = 0 THEN max_bot_balance ELSE s.capital_usdt
             half == pnl \div 2
         IN [s EXCEPT
               !.capital_usdt = IF pnl > 0 THEN capital + half
                                ELSE IF pnl < 0 THEN capital + pnl ELSE capital,
               !.bot_balance_usdt = IF pnl > 0 THEN @ + half ELSE @,
               !.last_profit_split_date = s.daily_date]

\* the day reset of _ensure_daily_rollover (lines 425-427)
DayReset(s, day) == [s EXCEPT !.realized_pnl_today = 0, !.daily_date = day]

\* time.time(): the wall clock, far from 0 when the program starts
time_now == clock_epoch + now

\* the risk_meta a new state document has
RiskMetaInit == [last_loss_time |-> 0,
                 last_closed_time_per_symbol |-> [s \in AllSymbols |-> 0]]

\* RiskManager.on_position_closed on the risk meta, _save_meta putting it in
\* the state
on_position_closed(meta, sym, pnl_usdt) ==
    [meta EXCEPT !.last_closed_time_per_symbol[sym] = time_now,
                 !.last_loss_time = IF pnl_usdt < 0 THEN time_now ELSE @]

\* RiskManager.check_new_position, lines 67-76: the cooldown after a loss and
\* the re-entry delay of the symbol are over
cooldown_over_at(meta, sym) ==
    LET last_close == meta.last_closed_time_per_symbol[sym]
    IN /\ ~(loss_cooldown_sec > 0 /\ time_now - meta.last_loss_time < loss_cooldown_sec)
       /\ ~(reentry_delay_sec > 0 /\ last_close > 0
              /\ time_now - last_close < reentry_delay_sec)

\* the engine's event channel: whether the window's listener is registered
\* (add_listener), the POSITION_OPENED and POSITION_CLOSED events it has
\* received, each with its kind and the id or reason code it carries, and
\* the entry-reject lines written to the logger; failed: for each kind of
\* listener the last event at which one of them raised
ListenerKinds == {"price", "kline", "connection", "position"}

\* the listeners the program registers, in the order of the list: the
\* engine's own (lines 157-159 of the engine), the window's bridge and the
\* remote command channel
Listeners ==
    [kind \in ListenerKinds |->
        CASE kind = "price" -> <<"engine", "gui">>
          [] kind = "kline" -> <<"strategy">>
          [] kind = "connection" -> <<"gui">>
          [] kind = "position" -> <<"engine", "gui", "telegram">>]

\* the listeners that are not wrapped in a try of their own
Raisers == {"gui", "telegram"}

NoDelivery == [invoked |-> <<>>, raised |-> {}, locked |-> FALSE]

EventsInit ==
    [listening |-> FALSE, log |-> <<>>, logger |-> <<>>,
     failed |-> [kind \in ListenerKinds |-> NoDelivery]]

\* variant: the exception of a listener ends the loop
notify_stops(ev, kind, raising, locked) ==
    LET fns == Listeners[kind]
        bad == {i \in DOMAIN fns : fns[i] \in raising}
    IN IF bad = {} THEN ev
       ELSE [ev EXCEPT !.failed[kind] =
                [invoked |-> SubSeq(fns, 1, Min(bad)),
                 raised |-> {fns[Min(bad)]}, locked |-> locked]]

\* _emit_price, _emit_kline, _emit_connection and PositionManager._emit: each
\* listener of the list is called inside a try; raising are the listeners
\* that raise at this event, locked whether the caller holds its lock
notify(ev, kind, raising, locked) ==
    LET fns == Listeners[kind]
        bad == {i \in DOMAIN fns : fns[i] \in raising}
    IN IF bad = {} THEN ev
       ELSE [ev EXCEPT !.failed[kind] =
                [invoked |-> fns, raised |-> {fns[i] : i \in bad}, locked |-> locked]]

RecordedKinds == {"POSITION_OPENED", "POSITION_CLOSED", "ENTRY_REJECT"}

\* TradingEngine._emit: the event is handed to each registered listener
emit(ev, kind, data) ==
    IF ev.listening /\ kind \in RecordedKinds
    THEN [ev EXCEPT !.log = Append(@, [kind |-> kind, data |-> data])]
    ELSE ev

\* variant: the position event is handed on twice
on_position_event_twice(ev, kind, id) ==
    IF kind = "CLOSED" THEN emit(emit(ev, "POSITION_CLOSED", id), "POSITION_CLOSED", id)
    ELSE IF kind = "OPENED" THEN emit(emit(ev, "POSITION_OPENED", id), "POSITION_OPENED", id)
    ELSE IF kind = "UPDATED" THEN emit(ev, "POSITION_UPDATED", id)
    ELSE ev

\* PositionManager._emit calling the engine's _on_position_event, the one
\* listener the engine registers at construction
on_position_event(ev, kind, id) ==
    IF kind = "CLOSED" THEN emit(ev, "POSITION_CLOSED", id)
    ELSE IF kind = "OPENED" THEN emit(ev, "POSITION_OPENED", id)
    ELSE IF kind = "UPDATED" THEN emit(ev, "POSITION_UPDATED", id)
    ELSE ev

\* engine.debug_entry_reasons as the settings ship it
debug_entry_reasons == FALSE

important_reasons ==
    {"RISK_BLOCK", "PAPER_BAL_ZERO", "DUPLICATE_SYMBOL", "MIN_TRADE_BLOCK",
     "PAPER_INSUFFICIENT_BAL"}

\* _log_entry_reject: a logger line for the important reasons when the debug
\* setting is on; nothing is handed to _emit
log_entry_reject(ev, sym, code) ==
    IF ~debug_entry_reasons THEN ev
    ELSE IF code \notin important_reasons THEN ev
    ELSE [ev EXCEPT !.logger = Append(@, [symbol |-> sym, code |-> code])]

\* an order as _execute_entry and _execute_close hand it to the exchange
\* client: symbol and side, no newClientOrderId; pid is the position it is
\* for (0 for a BUY), ok the exchange's answer
\* BinanceClient._safe_retry on the answers the exchange would give to
\* successive attempts: the first success returns, an API error breaks the
\* loop, any other error goes on to the next attempt, at most retries times
retries == 3
Answers == {"ok", "api", "transport"}

RECURSIVE safe_retry_from(_, _)
safe_retry_from(answers, i) ==
    IF i > retries THEN [success |-> FALSE, attempts |-> retries]
    ELSE IF answers[i] = "ok" THEN [success |-> TRUE, attempts |-> i]
    ELSE IF answers[i] = "api" THEN [success |-> FALSE, attempts |-> i]
    ELSE safe_retry_from(answers, i + 1)

safe_retry(answers) == safe_retry_from(answers, 1)

\* the engine's client is the library's Client: one create_order call inside
\* a try, so one attempt whatever the error is
NoClientId == <<>>
Order(sym, side, pid, ok) ==
    [symbol |-> sym, side |-> side, client_order_id |-> NoClientId, pid |-> pid,
     ok |-> ok, attempts |-> 1]

\* variant: the rejected order is sent a second time
order_failed_retry(L, sym, side, pid, code) ==
    [L EXCEPT !.code = code,
              !.orders = @ \o <<Order(sym, side, pid, FALSE), Order(sym, side, pid, FALSE)>>]

\* the except clause around create_order (lines 597-599 and 669-671): the
\* error is logged and the call returns
order_failed(L, sym, side, pid, code) ==
    [L EXCEPT !.code = code, !.orders = Append(@, Order(sym, side, pid, FALSE))]

\* _execute_close on L = [open, closed, st, disk, code], code being the
\* outcome of the last call; sell_ok: the live SELL order goes through
execute_close(L, pid, price, reason, pm, sell_ok) ==
    IF pid \notin DOMAIN L.open THEN L
    ELSE IF L.open[pid].source # "bot" \/ L.open[pid].qty <= 0 THEN L
    ELSE IF ~pm /\ HasClient(pm) /\ ~sell_ok
         THEN order_failed(L, L.open[pid].symbol, "SELL", pid, "SELL_FAILED")
    ELSE LET r == close_position(L, pid, price, reason)
             proceeds == Notional(price, L.open[pid].qty)
             s == [L.st EXCEPT
                     !.realized_pnl_today = @ + r.pnl,
                     !.paper_balance_usdt = IF pm THEN @ + proceeds ELSE @,
                     !.risk_meta = on_position_closed(@, L.open[pid].symbol, r.pnl)]
             sent == IF ~pm /\ HasClient(pm)
                     THEN Append(L.orders, Order(L.open[pid].symbol, "SELL", pid, TRUE))
                     ELSE L.orders
         IN IF ~r.ok THEN [L EXCEPT !.orders = sent]
            ELSE [open |-> r.open,
                  closed |-> r.closed,
                  st |-> s,
                  disk |-> Doc(r.open, r.closed, s),
                  code |-> "CLOSED",
                  orders |-> sent,
                  events |-> on_position_event(L.events, "CLOSED", pid)]

\* the for loops of _apply_ai_decision over the recommendations and over
\* bot_positions_sym: _execute_close for each id, in dict order
RECURSIVE CloseEach(_, _, _, _, _, _)
CloseEach(L, ids, reasons, price, pm, sold) ==
    IF ids = {} THEN L
    ELSE LET id == Min(ids)
         IN CloseEach(execute_close(L, id, price, reasons[id], pm, id \in sold),
                      ids \ {id}, reasons, price, pm, sold)

NoEntry == [symbol |-> None, requested_trade_usdt |-> 0, price |-> 0, qty |-> 0,
            tp_price |-> 0, sl_price |-> 0, use_trailing |-> FALSE, trailing_sl_pct |-> 0]

\* _apply_ai_decision up to the call of open_position, with _execute_entry's
\* order and paper debit.  The result carries the ledger and, when the entry
\* goes on to open_position, its arguments.
apply_ai_decision(sym, action, req_usdt, use_trailing, cooldown_over, sold, buy_ok) ==
    LET last == prices[sym]
        pm == paper_mode
        L0 == [open |-> open_positions, closed |-> closed_positions,
               st |-> st, disk |-> disk, code |-> "NONE", orders |-> <<>>,
               events |-> events]
        open1 == update_price(open_positions, sym, last)
        disk1 == IF open1 # open_positions
                 THEN Doc(open1, closed_positions, st) ELSE disk
        bot_positions_sym == BotPositionsOf(open1, sym)
        recs == check_exit_recommendations(open1, sym, last)
        L1 == CloseEach([L0 EXCEPT !.open = open1, !.disk = disk1], recs,
                        [id \in recs |-> ExitReason(open1[id], last)], last, pm, sold)
        L2 == CloseEach(L1, bot_positions_sym,
                        [id \in bot_positions_sym |-> "AI_EXIT"], last, pm, sold)
        paper_bal == L1.st.paper_balance_usdt
        req == IF pm THEN ClipRequest(req_usdt, paper_bal) ELSE req_usdt
        qty == normalize_quantity(pm, req, last)
        debit == PaperDebit(paper_bal, Notional(last, qty))
        debited == [L1.st EXCEPT !.paper_balance_usdt = debit.balance]
        Reject(code) ==
            [L |-> [L1 EXCEPT !.code = code, !.events = log_entry_reject(@, sym, code)],
             entry |-> NoEntry]
    IN IF last <= 0
       THEN [L |-> [L0 EXCEPT !.code = "NO_PRICE",
                              !.events = log_entry_reject(@, sym, "NO_PRICE")],
             entry |-> NoEntry]
       ELSE IF action = "EXIT" /\ bot_positions_sym # {} THEN [L |-> L2, entry |-> NoEntry]
       ELSE IF action # "ENTRY" THEN [L |-> L1, entry |-> NoEntry]
       ELSE IF ~check_new_position(sym, open1, cooldown_over) THEN Reject("RISK_BLOCK")
       ELSE IF bot_positions_sym # {} THEN Reject("DUPLICATE_SYMBOL")
       ELSE IF req_usdt <= 0 THEN Reject("REQ_USDT_ZERO")
       ELSE IF pm /\ paper_bal <= 0 THEN Reject("PAPER_BAL_ZERO")
       ELSE IF req < min_trade_usdt THEN Reject("MIN_TRADE_BLOCK")
       ELSE IF qty <= 0 THEN Reject("QTY_NORMALIZE_ZERO")
       ELSE IF ~pm /\ ~buy_ok
            THEN [L |-> order_failed(L1, sym, "BUY", 0, "BUY_FAILED"), entry |-> NoEntry]
       ELSE IF pm /\ ~debit.ok THEN Reject("PAPER_INSUFFICIENT_BAL")
       ELSE [L |-> IF pm
                   THEN [L1 EXCEPT !.code = "ENTRY", !.st = debited,
                                   !.disk = Doc(L1.open, L1.closed, debited)]
                   ELSE [L1 EXCEPT !.code = "ENTRY",
                                   !.orders = Append(@, Order(sym, "BUY", 0, TRUE))],
             entry |-> [symbol |-> sym, requested_trade_usdt |-> req_usdt,
                        price |-> last, qty |-> qty,
                        tp_price |-> last * (100 + default_tp_pct),
                        sl_price |-> last * (100 - default_sl_pct),
                        use_trailing |-> use_trailing /\ default_trailing_sl_pct > 0,
                        trailing_sl_pct |-> default_trailing_sl_pct]]

\* ========================================================= AIOrchestrator
\* the ai settings: scores in hundredths, times in seconds of the model's
\* clock (the shipped warmup window is 300 s, the cooldown 2 s)
min_score_base == 40
min_signals_base == 1
warmup_relax_sec == 3
warmup_relax_score_delta == 10
eval_cooldown_sec == 2

\* valid_count of evaluate_symbol, line 129
valid_count == 1

Max(a, b) == IF a >= b THEN a ELSE b

\* the decision evaluate_symbol returned last: its symbol and action, and
\* whether it came from the cache
NoDecision == [symbol |-> None, action |-> None, cached |-> FALSE]

\* the orchestrator the engine constructs: _boot_ts is the time of the
\* construction, nothing evaluated and nothing cached
AiInit ==
    [boot_ts |-> clock_epoch,
     last_eval_ts |-> [sym \in AllSymbols |-> 0],
     cache |-> [sym \in AllSymbols |-> None],
     min_score |-> min_score_base,
     min_signals |-> min_signals_base,
     returned |-> NoDecision]

\* variant: the cooldown of one symbol holds for every symbol
InCooldownAnySymbol(a, sym, t) ==
    /\ eval_cooldown_sec > 0
    /\ \E other \in AllSymbols : t - a.last_eval_ts[other] < eval_cooldown_sec
    /\ a.cache[sym] # None

\* evaluate_symbol, lines 99-105: the call is answered from the cache
InCooldown(a, sym, t) ==
    /\ eval_cooldown_sec > 0
    /\ t - a.last_eval_ts[sym] < eval_cooldown_sec
    /\ a.cache[sym] # None

set_engine_start_ts(a, ts) == [a EXCEPT !.boot_ts = ts]

\* relaxed = elapsed < warmup_sec
Relaxed(a, t) == t - a.boot_ts < warmup_relax_sec

\* the two thresholds of the ENTRY gate, lines 162-169
MinScore(a, t) ==
    IF Relaxed(a, t) THEN Max(0, min_score_base - warmup_relax_score_delta)
    ELSE min_score_base

MinSignals(a, t) == min_signals_base

\* the action evaluate_symbol decides on a strategy output, lines 188-222
GateAction(signal, score, min_score, min_signals) ==
    IF signal \in {"EXIT", "SELL", "CLOSE"} THEN "EXIT"
    ELSE IF signal \notin {"ENTRY", "BUY", "LONG"} THEN "HOLD"
    ELSE IF score < min_score THEN "HOLD"
    ELSE IF valid_count < min_signals THEN "HOLD"
    ELSE "ENTRY"

\* ========================================================= StrategyEngine
\* the strategy settings _load_settings reads, as they ship
strategy_enabled == TRUE
rsi_period == 14
macd_slow == 26
macd_signal == 9
ema_slow == 50
bb_period == 20
base_interval == "15m"

\* market_data.history_candles_limit
history_limit == 120

MaxOf(S) == CHOOSE x \in S : \A y \in S : x >= y

\* _min_history of _load_settings
min_history == MaxOf({rsi_period + 1, bb_period, macd_slow + macd_signal + 5, ema_slow, 40})

\* the signals of a strategy output, the trend labels, no output
Signals == {"ENTRY", "HOLD", "EXIT"}
Trends == {"UP", "DOWN"}
NoOutput == [symbol |-> None, signal |-> None]

\* the engine as the model starts: an output for each symbol of SymbolOrder,
\* no 1h trend yet, no listener notified
StrategyInit ==
    [signal |-> [sym \in AllSymbols |-> IF sym \in Symbols THEN "HOLD" ELSE None],
     trend_1h |-> [sym \in AllSymbols |-> "--"],
     notified |-> NoOutput]

\* variant: short histories are not skipped
SkipsEmpty(n) == ~strategy_enabled \/ n = 0

\* on_kline_update, lines 120-130: the update is dropped
Skips(n) == ~strategy_enabled \/ n = 0 \/ n < min_history

\* ====================================================== MarketDataManager
ws_backoff_sec == <<2, 5, 10, 15>>
kline_intervals == <<"15m", "1h">>
data_timeout_sec == 2
restored_age_sec == 1

\* the contexts that call update_symbols: start_trading and the remote
\* command channel
Callers == {"engine", "telegram"}

NoOwner == "free"
NoUrl == <<>>

\* _rebuild_streams_url, lines 414-420: the ticker stream, then one kline
\* stream per symbol and interval, a stream being <<name, kind>>
RECURSIVE KlineStreams(_)
KlineStreams(syms) ==
    IF syms = <<>> THEN <<>>
    ELSE [i \in 1 .. Len(kline_intervals) |-> <<Head(syms), kline_intervals[i]>>]
           \o KlineStreams(Tail(syms))

StreamsUrl(syms) == <<(<<"!ticker", "arr">>)>> \o KlineStreams(syms)

\* the stream thread before it is started
WsIdle == [pc |-> "none", url |-> NoUrl, open |-> FALSE, closing |-> FALSE, delay |-> 0]

\* MarketDataManager.__init__: the symbols are those of the state's watchlist
\* klines is the candle list of the first symbol and the base interval
MarketInit(wl) ==
    [running |-> FALSE, symbols |-> wl, streams_url |-> NoUrl, reconnect_index |-> 0,
     force_reconnect |-> FALSE, last_data_time |-> 0, lock |-> NoOwner,
     preload_inflight |-> FALSE, klines |-> <<>>]

\* a thread that runs _start_async: where it is and how many REST requests
\* its preload has still to make
PreIdle == [pc |-> "idle", left |-> 0]

\* the ingestion thread inside update_price: the iterator over
\* open_positions.values() (the ids it has still to visit and the size of
\* the dict when it was created), the position in hand, and whether the
\* call ended with "dictionary changed size during iteration"
TickIdle == [pc |-> "idle", sym |-> None, price |-> 0, todo |-> {}, size |-> 0,
             id |-> 0, changed |-> FALSE, error |-> FALSE]

\* the thread that closes a position: "call" when it has read the price and
\* goes on to _execute_close, "closed" when close_position has returned and
\* the PnL has still to be read
NoClose == [pc |-> "idle", pid |-> 0, price |-> 0]

ThreadsInit ==
    [start |-> "none", ws |-> WsIdle, watchdog |-> "none",
     upd |-> [c \in Callers |-> "idle"],
     pre |-> [p \in Preloaders |-> PreIdle],
     tick |-> TickIdle, closing |-> NoClose]

\* kline: the bucket and the closed flag of the last kline message the
\* exchange has sent
HistInit ==
    [fails |-> 0, k |-> 0, report |-> "none", start_time |-> 0,
     kline |-> [t |-> -1, closed |-> TRUE]]

\* update_symbols(new_syms) called by c, up to the point where it returns or
\* waits for the lock: "acquire" is the wait at line 153 for a lock another
\* caller holds, "rebuild" the wait at line 411 inside _rebuild_streams_url,
\* entered from line 157 with the lock held by c itself
update_symbols(c, new_syms, m, upd) ==
    IF m.lock # NoOwner
    THEN [market |-> m, upd |-> [upd EXCEPT ![c] = "acquire"], returned |-> FALSE]
    ELSE IF new_syms = m.symbols
    THEN [market |-> m, upd |-> upd, returned |-> TRUE]
    ELSE [market |-> [m EXCEPT !.symbols = new_syms, !.lock = c],
          upd |-> [upd EXCEPT ![c] = "rebuild"], returned |-> FALSE]

\* MarketDataManager.start, lines 110-116
market_start(m) ==
    IF m.running THEN m
    ELSE [m EXCEPT !.running = TRUE, !.force_reconnect = FALSE, !.reconnect_index = 0]

\* MarketDataManager.stop, lines 137-138
market_stop(m) == [m EXCEPT !.running = FALSE, !.force_reconnect = TRUE]

\* min(self._reconnect_index, len(self.ws_backoff_sec) - 1), as a 1-based index
BackoffAt(index) ==
    IF index < Len(ws_backoff_sec) - 1 THEN index + 1 ELSE Len(ws_backoff_sec)

\* _ws_loop, line 257
BackoffDelay(index) == ws_backoff_sec[BackoffAt(index)]

\* the exchange's candles of the modelled list: one bucket per second of the
\* clock, open_time being the second; a finished bucket has its final close
\* price, the bucket of the current second is in progress at some price
FinalClose == Min(Prices)
Candle(open_time, close, is_closed) ==
    [open_time |-> open_time, close |-> close, is_closed |-> is_closed]

\* _preload_history, lines 197-219: the candles of a REST answer at second t,
\* the last history_limit buckets up to the one in progress, each built with
\* is_closed=True
RestCandles(t, close) ==
    [i \in 1 .. history_limit |->
        Candle(t - history_limit + i, IF i = history_limit THEN close ELSE FinalClose, TRUE)]

\* _handle_kline, lines 361-374, on the candle list of the stream: the last
\* candle is replaced when it has the open_time of the message, else the
\* candle is appended; the list is cut to its last history_limit candles
handle_kline(candles, candle) ==
    LET n == Len(candles)
        merged == IF n > 0 /\ candles[n].open_time = candle.open_time
                  THEN [candles EXCEPT ![n] = candle]
                  ELSE Append(candles, candle)
    IN IF Len(merged) > history_limit
       THEN SubSeq(merged, Len(merged) - history_limit + 1, Len(merged))
       ELSE merged

\* the kline stream of the exchange: the closing message of the bucket that
\* has just ended, when the last message sent was an update of that bucket,
\* and the updates of the bucket in progress
StreamSends(t, close, x) ==
    \/ /\ x /\ t = now - 1 /\ close = FinalClose
       /\ hist.kline = [t |-> t, closed |-> FALSE]
    \/ /\ ~x /\ t = now /\ close \in Prices

\* the seconds since the last message, or since the start of the stream
\* thread when none has come
DataAge ==
    now - (IF market.last_data_time > 0 THEN market.last_data_time ELSE hist.start_time)

\* ============================================================ the state file
\* the threads that call save_state: the control loop and the ingestion
\* thread (update_price persisting a changed position)
Writers == {"loop", "ingest"}

\* a document is written in DocChunks pieces; the files are kept as inodes,
\* since an open file stays with its inode when the name moves
DocChunks == 2
Inodes == 1 .. (Cardinality(Writers) + 1)
NoInode == 0
Hole == [ver |-> -1, part |-> 0]

\* json.dump of the document with serial number ver
Document(ver) == [i \in 1 .. DocChunks |-> [ver |-> ver, part |-> i]]

\* json.load accepts the content
CompleteDocument(content) == \E ver \in 0 .. MaxSaves : content = Document(ver)

NoHandle == [pc |-> "idle", ino |-> NoInode, off |-> 0, ver |-> 0]

FsInit == [state_path |-> 1, tmp_path |-> NoInode,
           data |-> [i \in Inodes |-> IF i = 1 THEN Document(0) ELSE <<>>],
           w |-> [x \in Writers |-> NoHandle],
           saves |-> 0]

\* the inodes that have a name or an open handle
InUse(f) == {f.state_path, f.tmp_path} \cup {f.w[x].ino : x \in Writers}

\* write(chunk) at offset off: the file grows, a gap reads as a hole
WriteAt(content, off, chunk) ==
    [i \in 1 .. (IF off + 1 > Len(content) THEN off + 1 ELSE Len(content)) |->
        IF i = off + 1 THEN chunk
        ELSE IF i <= Len(content) THEN content[i] ELSE Hole]

\* save_state, line 194: tmp_path.open("w") creates the temp file or
\* truncates the one that is there
SaveOpen(x) ==
    /\ fs.w[x].pc = "idle"
    /\ fs.saves < MaxSaves
    /\ LET ino == IF fs.tmp_path # NoInode THEN fs.tmp_path
                  ELSE Min(Inodes \ InUse(fs))
       IN fs' = [fs EXCEPT !.tmp_path = ino,
                           !.data[ino] = <<>>,
                           !.saves = @ + 1,
                           !.w[x] = [pc |-> "write", ino |-> ino, off |-> 0,
                                     ver |-> fs.saves + 1]]
    /\ UNCHANGED <<engine_vars, prices, open_positions, disk,
                   now, watchlist, outputs, market, mthr, hist, orders, events, exit_recs, ai, strategy>>

\* save_state, line 195: json.dump writes the next piece through the open
\* file; after the last one the file is closed
SaveWrite(x) ==
    /\ fs.w[x].pc = "write"
    /\ LET h == fs.w[x]
       IN fs' = [fs EXCEPT !.data[h.ino] = WriteAt(@, h.off, Document(h.ver)[h.off + 1]),
                           !.w[x].off = h.off + 1,
                           !.w[x].pc = IF h.off + 1 = DocChunks THEN "replace" ELSE "write"]
    /\ UNCHANGED <<engine_vars, prices, open_positions, disk,
                   now, watchlist, outputs, market, mthr, hist, orders, events, exit_recs, ai, strategy>>

\* save_state, line 197: tmp_path.replace(state_path); FileNotFoundError
\* when the temp file has been moved by the other thread
SaveReplace(x) ==
    /\ fs.w[x].pc = "replace"
    /\ fs' = IF fs.tmp_path = NoInode
             THEN [fs EXCEPT !.w[x] = NoHandle]
             ELSE [fs EXCEPT !.state_path = fs.tmp_path,
                             !.tmp_path = NoInode,
                             !.w[x] = NoHandle]
    /\ UNCHANGED <<engine_vars, prices, open_positions, disk,
                   now, watchlist, outputs, market, mthr, hist, orders, events, exit_recs, ai, strategy>>

\* the process ends inside save_state: the open files are gone, the names
\* and what was written stay
SaveCrash ==
    /\ \E x \in Writers : fs.w[x].pc # "idle"
    /\ fs' = [fs EXCEPT !.w = [x \in Writers |-> NoHandle]]
    /\ UNCHANGED <<engine_vars, prices, open_positions, disk,
                   now, watchlist, outputs, market, mthr, hist, orders, events, exit_recs, ai, strategy>>

\* ============================================================ state machine
IdleThread == [pc |-> "idle", day |-> NoDate, todo |-> <<>>, entry |-> NoEntry]

Bump(count, day) ==
    [count EXCEPT ![day] = IF @ < MaxRollovers THEN @ + 1 ELSE @]

\* TradingEngine.__init__ on a fresh state file: load_state sets daily_date,
\* _ensure_ledger_defaults the balances
Init ==
    /\ today = 1
    /\ prices = [s \in AllSymbols |-> 0]
    /\ paper_mode = TRUE
    /\ bot_status = "STOPPED"
    /\ stop_event = FALSE
    /\ thr = [t \in Threads |-> IdleThread]
    /\ open_positions = <<>>
    /\ closed_positions = <<>>
    /\ next_id = 0
    /\ st = [paper_balance_usdt |-> InitialPaperBalance,
             realized_pnl_today |-> 0,
             daily_date |-> 1,
             capital_usdt |-> max_bot_balance,
             bot_balance_usdt |-> 0,
             last_profit_split_date |-> NoDate,
             risk_meta |-> RiskMetaInit]
    /\ disk = Doc(open_positions, closed_positions, st)
    /\ rollover_count = [d \in Days |-> 0]
    /\ split_count = [d \in Days |-> 0]
    /\ now = 1
    /\ watchlist = SymbolOrder
    /\ outputs = SymbolOrder
    /\ market = MarketInit(watchlist)
    /\ mthr = ThreadsInit
    /\ hist = HistInit
    /\ fs = FsInit
    /\ orders = <<>>
    /\ events = EventsInit
    /\ exit_recs = NoRecs
    /\ ai = AiInit
    /\ strategy = StrategyInit

\* midnight: date.today() moves on
NextDay ==
    /\ today < MaxDay
    /\ today' = today + 1
    /\ UNCHANGED <<prices, paper_mode, bot_status, stop_event, thr, open_positions,
                   closed_positions, next_id, st, disk, rollover_count, split_count>>
    /\ UNCHANGED stream_vars

\* _handle_ticker_array for one symbol: the price map, then the price
\* listener _on_price -> update_price, which persists when a position changed
Tick(sym, price) ==
    /\ prices' = [prices EXCEPT ![sym] = price]
    /\ open_positions' = update_price(open_positions, sym, price)
    /\ disk' = IF open_positions' # open_positions
               THEN Doc(open_positions', closed_positions, st) ELSE disk
    /\ UNCHANGED <<today, paper_mode, bot_status, stop_event, thr, closed_positions,
                   next_id, st, rollover_count, split_count>>
    /\ UNCHANGED stream_vars

\* start_trading, lines 312-315, once update_symbols has returned: the market
\* data is started and a new loop thread, t being the first thread slot not
\* in use
StartLoop(t, m) ==
    /\ market' = market_start(m)
    /\ thr' = [thr EXCEPT ![t] = [IdleThread EXCEPT !.pc = "sleep"]]
    /\ hist' = [hist EXCEPT !.fails = IF m.running THEN @ ELSE 0]

\* start_trading: clears the stop event, hands the watchlist to the market
\* data and, when that call returns, starts the market data and the thread
start_trading(t) ==
    /\ bot_status # "RUNNING"
    /\ thr[t].pc = "idle"
    /\ \A u \in Threads : u < t => thr[u].pc # "idle"
    /\ mthr.upd["engine"] = "idle"
    /\ stop_event' = FALSE
    /\ bot_status' = "RUNNING"
    /\ LET u == update_symbols("engine", watchlist, market, mthr.upd)
       IN IF u.returned
          THEN /\ StartLoop(t, u.market)
               /\ mthr' = [mthr EXCEPT !.start = IF market.running THEN @ ELSE "preload"]
          ELSE /\ market' = u.market
               /\ mthr' = [mthr EXCEPT !.upd = u.upd]
               /\ hist' = [hist EXCEPT !.fails = IF u.market.symbols # market.symbols
                                                  THEN 0 ELSE @]
               /\ thr' = thr
    /\ UNCHANGED <<today, prices, paper_mode, open_positions, closed_positions,
                   next_id, st, disk, rollover_count, split_count>>
    /\ ai' = set_engine_start_ts(ai, time_now)
    /\ UNCHANGED <<now, watchlist, outputs>>
    /\ UNCHANGED <<fs, orders, events, exit_recs, strategy>>

\* stop_trading: returns at once when STOPPED; else sets the status and the
\* stop event and stops the market data, which closes the socket
stop_trading ==
    /\ bot_status # "STOPPED"
    /\ bot_status' = "STOPPED"
    /\ stop_event' = TRUE
    /\ market' = market_stop(market)
    /\ mthr' = [mthr EXCEPT !.ws.closing = (mthr.ws.pc = "run")]
    /\ UNCHANGED <<today, prices, paper_mode, thr, open_positions, closed_positions,
                   next_id, st, disk, rollover_count, split_count>>
    /\ UNCHANGED <<now, watchlist, outputs, hist, fs, orders, events, exit_recs, ai, strategy>>

\* set_paper_mode(paper)
set_paper_mode(paper) ==
    /\ paper_mode # paper
    /\ paper_mode' = paper
    /\ UNCHANGED <<today, prices, bot_status, stop_event, thr, open_positions,
                   closed_positions, next_id, st, disk, rollover_count, split_count>>
    /\ UNCHANGED stream_vars

\* _run_loop, lines 387-398, after the rollover: sleep when not RUNNING, else
\* go through the symbols that have a cached signal
AfterRollover(th) ==
    IF bot_status # "RUNNING"
    THEN [th EXCEPT !.pc = "sleep", !.day = NoDate]
    ELSE [th EXCEPT !.pc = "symbols", !.day = NoDate, !.todo = outputs]

\* _run_loop, line 383 to 398: the thread wakes, exits when the stop event
\* is set, and runs _ensure_daily_rollover.  On a new date the profit split
\* writes the document and notifies, which lets other threads run before the
\* day reset; the reset follows at once when the split returns early.
LoopIterate(t) ==
    /\ thr[t].pc = "sleep"
    /\ IF stop_event
       THEN /\ thr' = [thr EXCEPT ![t] = IdleThread]
            /\ UNCHANGED <<st, disk, rollover_count, split_count>>
       ELSE /\ IF st.daily_date = NoDate
               THEN /\ st' = [st EXCEPT !.daily_date = today]
                    /\ thr' = [thr EXCEPT ![t] = AfterRollover(@)]
                    /\ UNCHANGED <<rollover_count, split_count>>
               ELSE IF st.daily_date = today
               THEN /\ thr' = [thr EXCEPT ![t] = AfterRollover(@)]
                    /\ UNCHANGED <<st, rollover_count, split_count>>
               ELSE IF SplitApplies(st)
               THEN /\ st' = apply_daily_profit_split(st)
                    /\ split_count' = Bump(split_count, st.daily_date)
                    /\ thr' = [thr EXCEPT ![t].pc = "reset", ![t].day = today]
                    /\ UNCHANGED rollover_count
               ELSE /\ st' = DayReset(apply_daily_profit_split(st), today)
                    /\ rollover_count' = Bump(rollover_count, today)
                    /\ thr' = [thr EXCEPT ![t] = AfterRollover(@)]
                    /\ UNCHANGED split_count
            /\ disk' = Doc(open_positions, closed_positions, st')
    /\ UNCHANGED <<today, prices, paper_mode, bot_status, stop_event, open_positions,
                   closed_positions, next_id>>
    /\ UNCHANGED stream_vars

\* _ensure_daily_rollover, lines 425-429: the day reset with the date read
\* before the split
LoopReset(t) ==
    /\ thr[t].pc = "reset"
    /\ st' = DayReset(st, thr[t].day)
    /\ rollover_count' = Bump(rollover_count, thr[t].day)
    /\ thr' = [thr EXCEPT ![t] = AfterRollover(@)]
    /\ disk' = Doc(open_positions, closed_positions, st')
    /\ UNCHANGED <<today, prices, paper_mode, bot_status, stop_event, open_positions,
                   closed_positions, next_id, split_count>>
    /\ UNCHANGED stream_vars

\* the thread after it is done with the head of its symbol list
NextSymbol(th) ==
    IF Len(th.todo) <= 1
    THEN [th EXCEPT !.pc = "sleep", !.todo = <<>>, !.entry = NoEntry]
    ELSE [th EXCEPT !.pc = "symbols", !.todo = Tail(th.todo), !.entry = NoEntry]

\* _run_loop, lines 399-400 for one symbol: evaluate_symbol (its decision is
\* the input) and _apply_ai_decision up to the call of open_position
LoopSymbol(t, action, req_usdt, use_trailing, cooldown_over, sold, buy_ok) ==
    /\ thr[t].pc = "symbols"
    /\ LET r == apply_ai_decision(Head(thr[t].todo), action, req_usdt, use_trailing,
                                  cooldown_over, sold, buy_ok)
       IN /\ open_positions' = r.L.open
          /\ closed_positions' = r.L.closed
          /\ st' = r.L.st
          /\ disk' = r.L.disk
          /\ orders' = r.L.orders
          /\ events' = r.L.events
          /\ thr' = [thr EXCEPT ![t] = IF r.entry = NoEntry THEN NextSymbol(@)
                                       ELSE [@ EXCEPT !.pc = "open_check",
                                                      !.entry = r.entry]]
    /\ UNCHANGED <<today, prices, paper_mode, bot_status, stop_event, next_id,
                   rollover_count, split_count>>
    /\ UNCHANGED <<market_vars, exit_recs, ai, strategy>>

\* _run_loop, lines 398-405: evaluate_symbol or _apply_ai_decision raises for
\* the head of the symbol list; the except clause of the iteration is outside
\* the for loop, so the thread logs the error and goes to its sleep
LoopSymbolRaises(t) ==
    /\ thr[t].pc = "symbols"
    /\ thr' = [thr EXCEPT ![t] = [@ EXCEPT !.pc = "sleep", !.todo = <<>>,
                                           !.entry = NoEntry]]
    /\ UNCHANGED <<today, prices, paper_mode, bot_status, stop_event, open_positions,
                   closed_positions, next_id, st, disk, rollover_count, split_count>>
    /\ UNCHANGED stream_vars

\* _execute_entry in paper mode when the state file cannot be written:
\* line 609 has put the debited balance in the state, state.update at line 610
\* raises out of save_state, and the exception goes up to the except clause
\* of _run_loop; open_position is not called
LoopEntrySaveFails(t, req_usdt) ==
    /\ thr[t].pc = "symbols"
    /\ paper_mode
    /\ LET r == apply_ai_decision(Head(thr[t].todo), "ENTRY", req_usdt, FALSE, TRUE,
                                  DOMAIN open_positions, TRUE)
       IN /\ r.entry # NoEntry
          /\ r.L.open = open_positions
          /\ r.L.closed = closed_positions
          /\ st' = r.L.st
    /\ thr' = [thr EXCEPT ![t] = [@ EXCEPT !.pc = "sleep", !.todo = <<>>,
                                           !.entry = NoEntry]]
    /\ UNCHANGED <<today, prices, paper_mode, bot_status, stop_event, open_positions,
                   closed_positions, next_id, disk, rollover_count, split_count>>
    /\ UNCHANGED stream_vars

\* StrategyEngine.on_kline_update for n candles of an interval, signal and
\* trend being what the indicators give: nothing for a dropped update, the 1h
\* trend for the 1h interval, nothing for another interval than the base
\* one; else the output is stored, a first output adding its key after the
\* keys that are there, and handed to the listeners
on_kline_update(sym, interval, n, signal, trend) ==
    /\ IF Skips(n)
       THEN UNCHANGED <<outputs, strategy>>
       ELSE IF interval \in {"1h", "60m", "60"}
       THEN /\ strategy' = [strategy EXCEPT !.trend_1h[sym] = trend]
            /\ outputs' = outputs
       ELSE IF interval # base_interval
       THEN UNCHANGED <<outputs, strategy>>
       ELSE /\ outputs' = IF \E i \in DOMAIN outputs : outputs[i] = sym
                          THEN outputs ELSE Append(outputs, sym)
            /\ strategy' = [strategy EXCEPT
                               !.signal[sym] = signal,
                               !.notified = [symbol |-> sym, signal |-> signal]]
    /\ UNCHANGED <<engine_vars, prices, open_positions, disk,
                   now, watchlist, market, mthr, hist, fs, orders, events, exit_recs, ai>>

\* open_position, lines 114-119: the argument and duplicate checks; the
\* ValueError is caught by _execute_entry
LoopOpenCheck(t) ==
    /\ thr[t].pc = "open_check"
    /\ LET e == thr[t].entry
       IN thr' = [thr EXCEPT ![t] =
                    IF e.price <= 0 \/ e.qty <= 0
                       \/ has_open_bot_position(open_positions, e.symbol)
                    THEN NextSymbol(@)
                    ELSE [@ EXCEPT !.pc = "open_insert"]]
    /\ UNCHANGED <<today, prices, paper_mode, bot_status, stop_event, open_positions,
                   closed_positions, next_id, st, disk, rollover_count, split_count>>
    /\ UNCHANGED stream_vars

\* open_position, lines 121-170: the new id, the position dict, the insert
\* and the write-through; a run hands out no more than cap ids
LoopOpenInsert(t, cap) ==
    /\ thr[t].pc = "open_insert"
    /\ next_id < cap
    /\ LET e == thr[t].entry
           id == next_id + 1
           pos == NewPosition(id, e.symbol, "bot", e.price, e.qty,
                              IF paper_mode THEN "paper" ELSE "live",
                              e.tp_price, e.sl_price,
                              IF e.use_trailing /\ e.trailing_sl_pct > 0
                              THEN "True" ELSE "False",
                              e.trailing_sl_pct)
       IN /\ open_positions' = (id :> pos) @@ open_positions
          /\ next_id' = id
          /\ events' = on_position_event(events, "OPENED", id)
    /\ thr' = [thr EXCEPT ![t] = NextSymbol(@)]
    /\ disk' = Doc(open_positions', closed_positions, st)
    /\ UNCHANGED <<today, prices, paper_mode, bot_status, stop_event,
                   closed_positions, st, rollover_count, split_count>>
    /\ UNCHANGED <<market_vars, orders, exit_recs, ai, strategy>>

\* open_position when the state file cannot be written: save_state raises,
\* _persist_open_positions (lines 286-292) logs a warning, and open_position
\* goes on to return the position
LoopOpenInsertPersistFails(t, cap) ==
    /\ thr[t].pc = "open_insert"
    /\ next_id < cap
    /\ LET e == thr[t].entry
           id == next_id + 1
           pos == NewPosition(id, e.symbol, "bot", e.price, e.qty,
                              IF paper_mode THEN "paper" ELSE "live",
                              e.tp_price, e.sl_price,
                              IF e.use_trailing /\ e.trailing_sl_pct > 0
                              THEN "True" ELSE "False",
                              e.trailing_sl_pct)
       IN /\ open_positions' = (id :> pos) @@ open_positions
          /\ next_id' = id
          /\ events' = on_position_event(events, "OPENED", id)
    /\ thr' = [thr EXCEPT ![t] = NextSymbol(@)]
    /\ UNCHANGED <<today, prices, paper_mode, bot_status, stop_event, disk,
                   closed_positions, st, rollover_count, split_count>>
    /\ UNCHANGED <<market_vars, orders, exit_recs, ai, strategy>>

\* a call of check_exit_recommendations(sym, last) as _apply_ai_decision
\* makes it (lines 460-486), last being the market price of the symbol: the
\* list it returns, as the reason for each id
CheckExit(sym) ==
    /\ prices[sym] > 0
    /\ exit_recs' = [id \in check_exit_recommendations(open_positions, sym, prices[sym])
                        |-> ExitReason(open_positions[id], prices[sym])]
    /\ UNCHANGED <<engine_vars, prices, open_positions, disk, market_vars, orders, events, ai, strategy>>

\* evaluate_symbol(sym) at the time of the clock, score being the score of
\* the strategy output of the symbol: the cached decision within
\* the evaluation cooldown, HOLD without an output, else the gate
evaluate_symbol(sym, score) ==
    /\ ai' = IF InCooldown(ai, sym, time_now)
             THEN [ai EXCEPT !.returned = [symbol |-> sym, action |-> ai.cache[sym],
                                           cached |-> TRUE]]
             ELSE IF \A i \in DOMAIN outputs : outputs[i] # sym
             THEN [ai EXCEPT !.last_eval_ts[sym] = time_now, !.cache[sym] = "HOLD",
                             !.returned = [symbol |-> sym, action |-> "HOLD",
                                           cached |-> FALSE]]
             ELSE LET action == GateAction(strategy.signal[sym], score,
                                           MinScore(ai, time_now), MinSignals(ai, time_now))
                  IN [ai EXCEPT !.last_eval_ts[sym] = time_now,
                                !.min_score = MinScore(ai, time_now),
                                !.min_signals = MinSignals(ai, time_now),
                                !.cache[sym] = action,
                                !.returned = [symbol |-> sym, action |-> action,
                                              cached |-> FALSE]]
    /\ UNCHANGED <<engine_vars, prices, open_positions, disk, market_vars, orders, events,
                   exit_recs, strategy>>

\* TradingEngine.add_listener, called by the main window when it is built
add_listener ==
    /\ ~events.listening
    /\ events' = [events EXCEPT !.listening = TRUE]
    /\ UNCHANGED <<engine_vars, prices, open_positions, disk, market_vars, orders, exit_recs, ai, strategy>>

\* the manual-close dialog of the main window: close_cb(pid) calls
\* _execute_close on the GUI thread; pid comes from the rows listed when the
\* dialog was opened
ManualClose(pid, sell_ok) ==
    /\ pid \in DOMAIN open_positions
    /\ prices[open_positions[pid].symbol] > 0
    /\ LET L == execute_close([open |-> open_positions, closed |-> closed_positions,
                               st |-> st, disk |-> disk, code |-> "NONE",
                               orders |-> <<>>, events |-> events],
                              pid, prices[open_positions[pid].symbol], "MANUAL_CLOSE",
                              paper_mode, sell_ok)
       IN /\ open_positions' = L.open
          /\ closed_positions' = L.closed
          /\ st' = L.st
          /\ disk' = L.disk
          /\ orders' = L.orders
          /\ events' = L.events
    /\ UNCHANGED <<today, prices, paper_mode, bot_status, stop_event, thr, next_id,
                   rollover_count, split_count>>
    /\ UNCHANGED <<market_vars, exit_recs, ai, strategy>>

\* PositionManager.open_position(source="manual"): an account position taken
\* over for display, tp/sl/trailing left to the settings
OpenManualListeners(sym, raising) ==
    /\ next_id < MaxPositions
    /\ prices[sym] > 0
    /\ LET id == next_id + 1
           pos == NewPosition(id, sym, "manual", prices[sym], ManualQty,
                              IF paper_mode THEN "paper" ELSE "live", 0, 0, None, -1)
       IN /\ open_positions' = (id :> pos) @@ open_positions
          /\ next_id' = id
          /\ events' = notify(on_position_event(events, "OPENED", id), "position",
                              raising, FALSE)
    /\ disk' = Doc(open_positions', closed_positions, st)
    /\ UNCHANGED <<today, prices, paper_mode, bot_status, stop_event, thr,
                   closed_positions, st, rollover_count, split_count>>
    /\ UNCHANGED <<market_vars, orders, exit_recs, ai, strategy>>

\* the same, no listener raising
OpenManual(sym) == OpenManualListeners(sym, {})

\* the paper balance _ensure_ledger_defaults leaves
LedgerDefaults(s) ==
    [s EXCEPT !.paper_balance_usdt = IF @ <= 0 THEN InitialPaperBalance ELSE @]

\* PositionManager.__init__: the open positions of the loaded document
LoadOpenPositions(doc) ==
    [id \in {i \in DOMAIN doc.open_positions : doc.open_positions[i].status = "open"}
       |-> doc.open_positions[id]]

\* the process ends and a new TradingEngine is built on the state file:
\* load_state, PositionManager.__init__, _ensure_ledger_defaults
Restart ==
    /\ thr' = [t \in Threads |-> IdleThread]
    /\ bot_status' = "STOPPED"
    /\ stop_event' = FALSE
    /\ prices' = [s \in AllSymbols |-> 0]
    /\ open_positions' = LoadOpenPositions(disk)
    /\ closed_positions' = disk.closed_positions
    /\ st' = LedgerDefaults([disk.st EXCEPT !.daily_date = IF @ = NoDate THEN today ELSE @])
    /\ disk' = Doc(open_positions', closed_positions', st')
    /\ market' = MarketInit(watchlist)
    /\ mthr' = ThreadsInit
    /\ hist' = HistInit
    /\ ai' = set_engine_start_ts(AiInit, time_now)
    /\ UNCHANGED <<today, paper_mode, next_id, rollover_count, split_count>>
    /\ UNCHANGED <<now, watchlist, outputs>>
    /\ UNCHANGED <<fs, orders, events, exit_recs, strategy>>

\* ------------------------------------------------ the market data stream
\* a second passes
ClockTick ==
    /\ now < MaxClock
    /\ now' = now + 1
    /\ UNCHANGED <<engine_vars, prices, open_positions, disk,
                   watchlist, outputs, market, mthr, hist, fs, orders, events, exit_recs, ai, strategy>>

\* StateManager.set_watchlist as the watchlist page calls it: the state and
\* its document, the market data being told at the next start
set_watchlist(wl) ==
    /\ wl # watchlist
    /\ watchlist' = wl
    /\ disk' = Doc(open_positions, closed_positions, st)
    /\ UNCHANGED <<engine_vars, prices, open_positions, now, outputs, market, mthr, hist, fs, orders, events, exit_recs, ai, strategy>>

\* /watchadd and /watchdel of the remote command channel: set_watchlist, then
\* update_symbols with the new list
cmd_watch(wl) ==
    /\ wl # watchlist
    /\ mthr.upd["telegram"] = "idle"
    /\ watchlist' = wl
    /\ disk' = Doc(open_positions, closed_positions, st)
    /\ LET u == update_symbols("telegram", wl, market, mthr.upd)
       IN /\ market' = u.market
          /\ mthr' = [mthr EXCEPT !.upd = u.upd]
          /\ hist' = [hist EXCEPT !.fails = IF u.market.symbols # market.symbols
                                             THEN 0 ELSE @]
    /\ UNCHANGED <<engine_vars, prices, open_positions, now, outputs>>
    /\ UNCHANGED <<fs, orders, events, exit_recs, ai, strategy>>

\* _start_async, line 124: _preload_history returns at once when the market
\* data is not running and else takes the lock to copy the symbols
StartPreload ==
    /\ mthr.start = "preload"
    /\ market.lock = NoOwner \/ ~market.running
    /\ mthr' = [mthr EXCEPT !.start = "rebuild"]
    /\ UNCHANGED <<engine_vars, prices, open_positions, disk,
                   now, watchlist, outputs, market, hist, fs, orders, events, exit_recs, ai, strategy>>

\* ------------------------------------------------------ the history preload
\* MarketDataManager.start, lines 110-120, called when not running: the
\* thread p is started on _start_async, which calls _preload_history
StartAsync(p) ==
    /\ ~market.running
    /\ mthr.pre[p].pc = "idle"
    /\ \A q \in Preloaders : q < p => mthr.pre[q].pc # "idle"
    /\ market' = market_start(market)
    /\ mthr' = [mthr EXCEPT !.pre[p].pc = "check"]
    /\ UNCHANGED <<engine_vars, prices, open_positions, disk,
                   now, watchlist, outputs, hist, fs, orders, events, exit_recs, ai, strategy>>

\* MarketDataManager.stop, lines 137-146
market_data_stop ==
    /\ market.running
    /\ market' = market_stop(market)
    /\ mthr' = [mthr EXCEPT !.ws.closing = (mthr.ws.pc = "run")]
    /\ UNCHANGED <<engine_vars, prices, open_positions, disk,
                   now, watchlist, outputs, hist, fs, orders, events, exit_recs, ai, strategy>>

\* _preload_history, lines 179-180: nothing to do when not running
PreloadCheck(p) ==
    /\ mthr.pre[p].pc = "check"
    /\ mthr' = [mthr EXCEPT !.pre[p].pc = IF market.running THEN "acquire" ELSE "after"]
    /\ UNCHANGED <<engine_vars, prices, open_positions, disk,
                   now, watchlist, outputs, market, hist, fs, orders, events, exit_recs, ai, strategy>>

\* variant: the flag is set without being looked at
PreloadAcquireUnguarded(p) ==
    /\ mthr.pre[p].pc = "acquire"
    /\ market' = [market EXCEPT !.preload_inflight = TRUE]
    /\ mthr' = [mthr EXCEPT !.pre[p].pc = "copy"]
    /\ UNCHANGED <<engine_vars, prices, open_positions, disk,
                   now, watchlist, outputs, hist, fs, orders, events, exit_recs, ai, strategy>>

\* lines 182-185, under _preload_lock: return when a preload is in flight
\* ("skip"), else set the flag
PreloadAcquire(p) ==
    /\ mthr.pre[p].pc = "acquire"
    /\ IF market.preload_inflight
       THEN /\ mthr' = [mthr EXCEPT !.pre[p].pc = "skip"]
            /\ market' = market
       ELSE /\ market' = [market EXCEPT !.preload_inflight = TRUE]
            /\ mthr' = [mthr EXCEPT !.pre[p].pc = "copy"]
    /\ UNCHANGED <<engine_vars, prices, open_positions, disk,
                   now, watchlist, outputs, hist, fs, orders, events, exit_recs, ai, strategy>>

\* lines 188-191, under the lock: the symbols and intervals are copied, one
\* request for each pair is to be made
PreloadCopy(p) ==
    /\ mthr.pre[p].pc = "copy"
    /\ market.lock = NoOwner
    /\ mthr' = [mthr EXCEPT !.pre[p] =
                  [pc |-> "fetch", left |-> Len(market.symbols) * Len(kline_intervals)]]
    /\ UNCHANGED <<engine_vars, prices, open_positions, disk,
                   now, watchlist, outputs, market, hist, fs, orders, events, exit_recs, ai, strategy>>

\* lines 193-229, one pass of the inner loop: the loops end when the market
\* data has been stopped or all requests are made; else the next request is
\* made, a failed one is logged, the answer of the first one (the first
\* symbol, the base interval) replaces the candle list under the lock
PreloadRequest(p, ok, close) ==
    /\ mthr.pre[p].pc = "fetch"
    /\ LET n == Len(market.symbols) * Len(kline_intervals)
           first == mthr.pre[p].left = n
       IN IF ~market.running \/ mthr.pre[p].left = 0
          THEN /\ mthr' = [mthr EXCEPT !.pre[p] = [pc |-> "finally", left |-> 0]]
               /\ market' = market
          ELSE /\ ok /\ first => market.lock = NoOwner
               /\ market' = IF ok /\ first
                             THEN [market EXCEPT !.klines = RestCandles(now, close)]
                             ELSE market
               /\ mthr' = [mthr EXCEPT !.pre[p].left = @ - 1]
    /\ UNCHANGED <<engine_vars, prices, open_positions, disk,
                   now, watchlist, outputs, hist, fs, orders, events, exit_recs, ai, strategy>>

\* an exception that the handler of the request does not catch leaves the
\* try block
PreloadRaises(p) ==
    /\ mthr.pre[p].pc \in {"copy", "fetch"}
    /\ mthr' = [mthr EXCEPT !.pre[p] = [pc |-> "finally", left |-> 0]]
    /\ UNCHANGED <<engine_vars, prices, open_positions, disk,
                   now, watchlist, outputs, market, hist, fs, orders, events, exit_recs, ai, strategy>>

\* lines 232-234, the finally clause under _preload_lock
PreloadFinally(p) ==
    /\ mthr.pre[p].pc = "finally"
    /\ market' = [market EXCEPT !.preload_inflight = FALSE]
    /\ mthr' = [mthr EXCEPT !.pre[p].pc = "after"]
    /\ UNCHANGED <<engine_vars, prices, open_positions, disk,
                   now, watchlist, outputs, hist, fs, orders, events, exit_recs, ai, strategy>>

\* _start_async after _preload_history has returned, lines 126-134: the
\* stream URL is rebuilt under the lock and the stream thread is started
AfterPreload(p) ==
    /\ mthr.pre[p].pc \in {"after", "skip"}
    /\ market.lock = NoOwner
    /\ market' = [market EXCEPT !.streams_url = StreamsUrl(market.symbols)]
    /\ mthr' = [mthr EXCEPT
                  !.pre[p] = PreIdle,
                  !.ws = IF @.pc \in {"none", "done"}
                         THEN [WsIdle EXCEPT !.pc = "connect"] ELSE @]
    /\ hist' = [hist EXCEPT !.start_time = IF mthr.ws.pc \in {"none", "done"} THEN now ELSE @]
    /\ UNCHANGED <<engine_vars, prices, open_positions, disk,
                   now, watchlist, outputs, fs, orders, events, exit_recs, ai, strategy>>

\* the first thread slot not in use
FreeSlot ==
    CHOOSE t \in Threads : thr[t].pc = "idle" /\ \A u \in Threads : u < t => thr[u].pc # "idle"

\* _rebuild_streams_url, which takes the lock, and what its caller does when
\* it returns: _start_async starts the stream thread and the watchdog (the
\* model follows one thread of each); update_symbols leaves its own lock
\* region and sets the reconnect event, and start_trading goes on from there
RebuildStreamsUrl(who) ==
    /\ market.lock = NoOwner
    /\ IF who = "start"
       THEN /\ mthr.start = "rebuild"
            /\ market' = [market EXCEPT !.streams_url = StreamsUrl(market.symbols)]
            /\ mthr' = [mthr EXCEPT
                          !.start = "done",
                          !.ws = IF @.pc \in {"none", "done"}
                                 THEN [WsIdle EXCEPT !.pc = "connect"] ELSE @,
                          !.watchdog = IF @ \in {"none", "done"} THEN "check" ELSE @]
            /\ hist' = [hist EXCEPT !.start_time = IF mthr.ws.pc \in {"none", "done"}
                                                     THEN now ELSE @]
            /\ thr' = thr
       ELSE /\ mthr.upd[who] = "rebuild"
            /\ LET m == [market EXCEPT !.streams_url = StreamsUrl(market.symbols),
                                       !.force_reconnect = TRUE]
               IN IF who = "engine"
                  THEN /\ StartLoop(FreeSlot, m)
                       /\ mthr' = [mthr EXCEPT !.upd[who] = "idle",
                                               !.start = IF m.running THEN @ ELSE "preload"]
                  ELSE /\ market' = m
                       /\ mthr' = [mthr EXCEPT !.upd[who] = "idle"]
                       /\ UNCHANGED <<thr, hist>>
    /\ UNCHANGED <<today, prices, paper_mode, bot_status, stop_event, open_positions,
                   closed_positions, next_id, st, disk, rollover_count, split_count,
                   now, watchlist, outputs>>
    /\ UNCHANGED <<fs, orders, events, exit_recs, ai, strategy>>

\* _ws_loop, lines 241-245: the loop condition, the URL as it is now, and
\* _connect_and_run up to the point where run_forever waits for the socket
WsConnect ==
    /\ mthr.ws.pc = "connect"
    /\ mthr' = [mthr EXCEPT !.ws =
                  IF ~market.running THEN [@ EXCEPT !.pc = "done"]
                  ELSE [WsIdle EXCEPT !.pc = "run", !.url = market.streams_url]]
    /\ UNCHANGED <<engine_vars, prices, open_positions, disk,
                   now, watchlist, outputs, market, hist, fs, orders, events, exit_recs, ai, strategy>>

\* _on_open: the socket is connected, the connection listeners are told,
\* the backoff starts again
WsOpenListeners(raising) ==
    /\ mthr.ws.pc = "run"
    /\ ~mthr.ws.open
    /\ ~mthr.ws.closing
    /\ mthr' = [mthr EXCEPT !.ws.open = TRUE]
    /\ market' = [market EXCEPT !.last_data_time = now, !.reconnect_index = 0]
    /\ hist' = [hist EXCEPT !.fails = 0]
    /\ events' = notify(events, "connection", raising, FALSE)
    /\ UNCHANGED <<engine_vars, prices, open_positions, disk, now, watchlist, outputs>>
    /\ UNCHANGED <<fs, orders, exit_recs, ai, strategy>>

\* the same, no listener raising
WsOpen == WsOpenListeners({})

\* _on_message with a ticker of a watched symbol: the time of the last data,
\* then _handle_ticker_array, which waits for the lock when it is held and
\* calls the price listeners after it has released it; the engine's listener
\* is update_price, which tells the position listeners of each position it
\* has updated
on_message_listeners(sym, price, raising) ==
    /\ mthr.ws.pc = "run"
    /\ mthr.ws.open
    /\ \E i \in 1 .. Len(market.symbols) : market.symbols[i] = sym
    /\ market' = [market EXCEPT !.last_data_time = now]
    /\ IF market.lock = NoOwner
       THEN /\ prices' = [prices EXCEPT ![sym] = price]
            /\ open_positions' = update_price(open_positions, sym, price)
            /\ disk' = IF open_positions' # open_positions
                       THEN Doc(open_positions', closed_positions, st) ELSE disk
            /\ mthr' = mthr
            /\ events' = LET told == IF open_positions' # open_positions
                                     THEN notify(events, "position", raising, FALSE)
                                     ELSE events
                         IN notify(told, "price", raising, FALSE)
       ELSE /\ mthr' = [mthr EXCEPT !.ws.pc = "blocked"]
            /\ UNCHANGED <<prices, open_positions, disk, events>>
    /\ UNCHANGED <<engine_vars, now, watchlist, outputs, hist, fs, orders, exit_recs, ai, strategy>>

\* the same, no listener raising
on_message(sym, price) == on_message_listeners(sym, price, {})

\* _on_message with a kline of the first symbol and the base interval: the
\* time of the last data, then _handle_kline, which waits for the lock when
\* it is held, and the kline listener (the strategy engine) with the list
on_kline_message(t, close, x, signal, raising) ==
    /\ mthr.ws.pc = "run"
    /\ mthr.ws.open
    /\ StreamSends(t, close, x)
    /\ hist' = [hist EXCEPT !.kline = [t |-> t, closed |-> x]]
    /\ IF market.lock = NoOwner
       THEN LET candles == handle_kline(market.klines, Candle(t, close, x))
                sym == market.symbols[1]
            IN /\ market' = [market EXCEPT !.last_data_time = now, !.klines = candles]
               /\ mthr' = mthr
               /\ IF Skips(Len(candles))
                  THEN UNCHANGED <<outputs, strategy>>
                  ELSE /\ outputs' = IF \E i \in DOMAIN outputs : outputs[i] = sym
                                     THEN outputs ELSE Append(outputs, sym)
                       /\ strategy' = [strategy EXCEPT
                                          !.signal[sym] = signal,
                                          !.notified = [symbol |-> sym, signal |-> signal]]
       ELSE /\ market' = [market EXCEPT !.last_data_time = now]
            /\ mthr' = [mthr EXCEPT !.ws.pc = "blocked"]
            /\ UNCHANGED <<outputs, strategy>>
    /\ events' = IF market.lock = NoOwner THEN notify(events, "kline", raising, FALSE)
                 ELSE events
    /\ UNCHANGED <<engine_vars, prices, open_positions, disk,
                   now, watchlist, fs, orders, exit_recs, ai>>

\* _ws_loop, lines 249-261, when run_forever has returned: leave the loop,
\* or reconnect at once on the reconnect event, or wait for the next delay of
\* the backoff sequence; the model stops counting at MaxReconnect
AfterRun ==
    IF ~market.running
    THEN /\ mthr' = [mthr EXCEPT !.ws = [WsIdle EXCEPT !.pc = "done"]]
         /\ UNCHANGED <<market, hist>>
    ELSE IF market.force_reconnect
    THEN /\ market' = [market EXCEPT !.force_reconnect = FALSE, !.reconnect_index = 0]
         /\ mthr' = [mthr EXCEPT !.ws = [WsIdle EXCEPT !.pc = "connect"]]
         /\ UNCHANGED hist
    ELSE /\ market.reconnect_index < MaxReconnect
         /\ market' = [market EXCEPT !.reconnect_index = @ + 1]
         /\ mthr' = [mthr EXCEPT !.ws = [WsIdle EXCEPT
                                           !.pc = "sleep",
                                           !.delay = BackoffDelay(market.reconnect_index)]]
         /\ hist' = [hist EXCEPT !.k = hist.fails, !.fails = @ + 1]

\* the connection is refused or lost: run_forever returns
WsFails ==
    /\ mthr.ws.pc = "run"
    /\ ~mthr.ws.closing
    /\ AfterRun
    /\ UNCHANGED <<engine_vars, prices, open_positions, disk, now, watchlist, outputs, fs, orders, events, exit_recs, ai, strategy>>

\* the socket has been closed by stop: run_forever returns
WsClosed ==
    /\ mthr.ws.pc = "run"
    /\ mthr.ws.closing
    /\ AfterRun
    /\ UNCHANGED <<engine_vars, prices, open_positions, disk, now, watchlist, outputs, fs, orders, events, exit_recs, ai, strategy>>

\* _ws_loop, line 261: the delay is over
WsWake ==
    /\ mthr.ws.pc = "sleep"
    /\ mthr' = [mthr EXCEPT !.ws.pc = "connect"]
    /\ UNCHANGED <<engine_vars, prices, open_positions, disk,
                   now, watchlist, outputs, market, hist, fs, orders, events, exit_recs, ai, strategy>>

\* _watchdog_loop, lines 389-395: one pass of the outer loop up to a sleep
WdCheck ==
    /\ mthr.watchdog = "check"
    /\ IF ~market.running
       THEN /\ mthr' = [mthr EXCEPT !.watchdog = "done"]
            /\ hist' = hist
       ELSE IF market.last_data_time > 0
               /\ now - market.last_data_time > data_timeout_sec
       THEN /\ mthr' = [mthr EXCEPT !.watchdog = "wait"]
            /\ hist' = [hist EXCEPT !.report = "disconnected"]
       ELSE /\ mthr' = [mthr EXCEPT !.watchdog = "sleep"]
            /\ hist' = hist
    /\ UNCHANGED <<engine_vars, prices, open_positions, disk,
                   now, watchlist, outputs, market>>
    /\ UNCHANGED <<fs, orders, events, exit_recs, ai, strategy>>

\* _watchdog_loop, lines 397-404: the inner loop ends, on fresh data or on
\* stop, and "connected" is reported when still running
WdRestore ==
    /\ mthr.watchdog = "wait"
    /\ ~(market.running /\ now - market.last_data_time > restored_age_sec)
    /\ mthr' = [mthr EXCEPT !.watchdog = "sleep"]
    /\ hist' = [hist EXCEPT !.report = IF market.running THEN "connected" ELSE @]
    /\ UNCHANGED <<engine_vars, prices, open_positions, disk,
                   now, watchlist, outputs, market>>
    /\ UNCHANGED <<fs, orders, events, exit_recs, ai, strategy>>

\* _watchdog_loop, line 404: the sleep is over
WdWake ==
    /\ mthr.watchdog = "sleep"
    /\ mthr' = [mthr EXCEPT !.watchdog = "check"]
    /\ UNCHANGED <<engine_vars, prices, open_positions, disk,
                   now, watchlist, outputs, market, hist, fs, orders, events, exit_recs, ai, strategy>>

\* ---------------------------------------------------------- specifications
\* The engine's operations are put together in several specifications, each
\* with the operations its properties are about.

\* the decisions evaluate_symbol hands to the loop thread t, with the risk
\* manager's clock conditions; the exchange accepts the live orders
Decide(t, requests, trailings, cooldowns) ==
    \E action \in {"ENTRY", "EXIT", "HOLD"} : \E req_usdt \in requests :
      \E use_trailing \in trailings : \E cooldown_over \in cooldowns :
        LoopSymbol(t, action, req_usdt, use_trailing, cooldown_over,
                   DOMAIN open_positions, TRUE)

\* the same in live mode, the exchange accepting or refusing the orders
DecideLive(t, requests) ==
    \E action \in {"ENTRY", "EXIT", "HOLD"} : \E req_usdt \in requests :
      \E buy_ok \in BOOLEAN : \E sold \in {{}, DOMAIN open_positions} :
        LoopSymbol(t, action, req_usdt, FALSE, TRUE, sold, buy_ok)

\* the tickers of the stream; a ticker without a last price carries 0
PriceTick == \E sym \in Symbols : \E price \in Prices : Tick(sym, price)

AnyTick == \E sym \in Symbols : \E price \in Prices \cup {0} : Tick(sym, price)

\* Spec: the engine in paper mode, with any number of loop threads
Next ==
    \/ AnyTick
    \/ \E t \in Threads : start_trading(t)
    \/ stop_trading
    \/ \E t \in Threads : LoopIterate(t)
    \/ \E t \in Threads : Decide(t, {trade_usdt}, BOOLEAN, BOOLEAN)
    \/ \E t \in Threads : LoopOpenCheck(t)
    \/ \E t \in Threads : LoopOpenInsert(t, MaxPositions)

Spec == Init /\ [][Next]_vars

\* SpecSmall: the same with requests the balance covers more than once
NextSmallStep ==
    \/ AnyTick
    \/ \E t \in Threads : start_trading(t)
    \/ stop_trading
    \/ \E t \in Threads : LoopIterate(t)
    \/ \E t \in Threads : Decide(t, {trade_usdt_min}, {FALSE}, BOOLEAN)
    \/ \E t \in Threads : LoopOpenCheck(t)
    \/ \E t \in Threads : LoopOpenInsert(t, MaxPositions)

SpecSmall == Init /\ [][NextSmallStep]_vars

\* SpecDay: loop threads over several calendar dates
NextDayStep ==
    \/ NextDay
    \/ PriceTick
    \/ \E t \in Threads : start_trading(t)
    \/ stop_trading
    \/ \E t \in Threads : LoopIterate(t)
    \/ \E t \in Threads : LoopReset(t)
    \/ \E t \in Threads : Decide(t, {trade_usdt}, {FALSE}, {TRUE})
    \/ \E t \in Threads : LoopOpenCheck(t)
    \/ \E t \in Threads : LoopOpenInsert(t, MaxDayPositions)

SpecDay == Init /\ [][NextDayStep]_vars

\* SpecMode: one loop thread, paper and live mode, several calendar dates
NextModeStep ==
    \/ NextDay
    \/ PriceTick
    \/ start_trading(1)
    \/ stop_trading
    \/ \E paper \in BOOLEAN : set_paper_mode(paper)
    \/ LoopIterate(1)
    \/ LoopReset(1)
    \/ DecideLive(1, {trade_usdt})
    \/ LoopOpenCheck(1)
    \/ LoopOpenInsert(1, MaxDayPositions)

SpecMode == Init /\ [][NextModeStep]_vars

\* SpecManual: one loop thread, manual positions and the manual-close dialog
NextManualStep ==
    \/ AnyTick
    \/ start_trading(1)
    \/ stop_trading
    \/ LoopIterate(1)
    \/ Decide(1, {trade_usdt}, {FALSE}, BOOLEAN)
    \/ LoopOpenCheck(1)
    \/ LoopOpenInsert(1, MaxPositions)
    \/ \E pid \in PositionIds : ManualClose(pid, TRUE)
    \/ \E sym \in Symbols : OpenManual(sym)
    \/ Restart

SpecManual == Init /\ [][NextManualStep]_vars

\* SpecStream: the market data stream with the callers of update_symbols
Ticker == \E sym \in AllSymbols : \E price \in Prices : on_message(sym, price)

NextStreamStep ==
    \/ \E wl \in WatchLists : set_watchlist(wl)
    \/ \E wl \in WatchLists : cmd_watch(wl)
    \/ \E t \in Threads : start_trading(t)
    \/ stop_trading
    \/ StartPreload
    \/ \E who \in Callers \cup {"start"} : RebuildStreamsUrl(who)
    \/ WsConnect
    \/ WsOpen
    \/ Ticker
    \/ WsFails
    \/ WsClosed
    \/ WsWake

SpecStream == Init /\ [][NextStreamStep]_vars

\* SpecStreamFair: the same, the threads of the market data being scheduled
\* and the exchange accepting a connection that stays requested; nothing is
\* assumed about lost connections or about the callers
SpecStreamFair ==
    /\ SpecStream
    /\ WF_vars(StartPreload)
    /\ WF_vars(\E who \in Callers \cup {"start"} : RebuildStreamsUrl(who))
    /\ WF_vars(WsConnect)
    /\ WF_vars(WsOpen)
    /\ WF_vars(WsClosed)
    /\ WF_vars(WsWake)

\* SpecStale: one loop thread beside the stream, its watchdog and the clock;
\* the connection is opened late or never, and is not lost once open
NextStaleStep ==
    \/ ClockTick
    \/ start_trading(1)
    \/ stop_trading
    \/ StartPreload
    \/ RebuildStreamsUrl("start")
    \/ WsConnect
    \/ WsOpen
    \/ Ticker
    \/ WsClosed
    \/ WdCheck
    \/ WdRestore
    \/ WdWake
    \/ LoopIterate(1)
    \/ Decide(1, {trade_usdt}, {FALSE}, {TRUE})
    \/ LoopOpenCheck(1)
    \/ LoopOpenInsert(1, MaxDayPositions)

SpecStale == Init /\ [][NextStaleStep]_vars

\* SpecStopFair: loop threads that are started and stopped over several
\* dates, before any price has come; a loop thread that can take a step
\* takes it, nothing is assumed about the callers of start and stop
NextStopStep ==
    \/ NextDay
    \/ \E t \in Threads : start_trading(t)
    \/ stop_trading
    \/ ClockTick
    \/ \E t \in Threads : LoopIterate(t)
    \/ \E t \in Threads : LoopReset(t)
    \/ \E t \in Threads : Decide(t, {trade_usdt}, {FALSE}, {TRUE})

SpecStopFair ==
    /\ Init
    /\ [][NextStopStep]_vars
    /\ \A t \in Threads :
         /\ WF_vars(LoopIterate(t))
         /\ WF_vars(LoopReset(t))
         /\ WF_vars(Decide(t, {trade_usdt}, {FALSE}, {TRUE}))

\* SpecIsolate: one loop thread going through the outputs of two symbols,
\* the processing of a symbol raising at any time
NextIsolateStep ==
    \/ \E sym \in AllSymbols : \E price \in Prices : Tick(sym, price)
    \/ \E sym \in AllSymbols : on_kline_update(sym, base_interval, min_history, "HOLD", "UP")
    \/ start_trading(1)
    \/ stop_trading
    \/ LoopIterate(1)
    \/ Decide(1, {trade_usdt_min}, {FALSE}, {TRUE})
    \/ LoopSymbolRaises(1)
    \/ LoopOpenCheck(1)
    \/ LoopOpenInsert(1, MaxPositions)

SpecIsolate == Init /\ [][NextIsolateStep]_vars

\* the risk meta when _apply_ai_decision gets to the risk gate for sym: after
\* the closes of the exit recommendations
RiskMetaAtGate(sym) ==
    apply_ai_decision(sym, "HOLD", 0, FALSE, TRUE, DOMAIN open_positions, TRUE).L.st.risk_meta

\* the decisions evaluate_symbol hands to the loop thread t in paper mode,
\* the clock conditions of the risk gate taken from the risk meta
DecideRisk(t, requests) ==
    /\ thr[t].pc = "symbols"
    /\ \E action \in {"ENTRY", "EXIT", "HOLD"} : \E req_usdt \in requests :
         LoopSymbol(t, action, req_usdt, FALSE,
                    cooldown_over_at(RiskMetaAtGate(Head(thr[t].todo)), Head(thr[t].todo)),
                    DOMAIN open_positions, TRUE)

\* SpecRisk: one loop thread on two symbols, the clock, and the manual-close
\* dialog on the GUI thread
NextRiskStep ==
    \/ \E sym \in AllSymbols : \E price \in Prices : Tick(sym, price)
    \/ \E sym \in AllSymbols : on_kline_update(sym, base_interval, min_history, "HOLD", "UP")
    \/ ClockTick
    \/ start_trading(1)
    \/ LoopIterate(1)
    \/ DecideRisk(1, {trade_usdt_min})
    \/ LoopOpenCheck(1)
    \/ LoopOpenInsert(1, MaxPositions)
    \/ \E pid \in PositionIds : ManualClose(pid, TRUE)

SpecRisk == Init /\ [][NextRiskStep]_vars

\* SpecDurable: one loop thread in paper mode, the state file at times not
\* writable when a position is opened, and the restart of the program
NextDurableStep ==
    \/ PriceTick
    \/ start_trading(1)
    \/ stop_trading
    \/ LoopIterate(1)
    \/ Decide(1, {trade_usdt_min}, {FALSE}, {TRUE})
    \/ LoopOpenCheck(1)
    \/ LoopOpenInsert(1, MaxPositions)
    \/ LoopOpenInsertPersistFails(1, MaxPositions)
    \/ Restart

SpecDurable == Init /\ [][NextDurableStep]_vars

\* a price at which the whole paper balance buys a whole number of steps
ExactPrices == {62500}

\* SpecRestore: one loop thread in paper mode that can spend the paper
\* balance to the last unit, and the restart of the program
NextRestoreStep ==
    \/ \E sym \in Symbols : \E price \in Prices \cup ExactPrices : Tick(sym, price)
    \/ start_trading(1)
    \/ stop_trading
    \/ LoopIterate(1)
    \/ Decide(1, {trade_usdt}, {FALSE}, {TRUE})
    \/ LoopOpenCheck(1)
    \/ LoopOpenInsert(1, MaxDayPositions)
    \/ Restart

SpecRestore == Init /\ [][NextRestoreStep]_vars

\* SpecFile: save_state called on the control-loop thread and on the
\* ingestion thread, the process ending at any point
NextFileStep ==
    \/ \E x \in Writers : SaveOpen(x)
    \/ \E x \in Writers : SaveWrite(x)
    \/ \E x \in Writers : SaveReplace(x)
    \/ SaveCrash

SpecFile == Init /\ [][NextFileStep]_vars

\* SpecPersist: one loop thread in paper mode, the state file at times not
\* writable during an entry
NextPersistStep ==
    \/ PriceTick
    \/ start_trading(1)
    \/ stop_trading
    \/ LoopIterate(1)
    \/ Decide(1, {trade_usdt_min}, {FALSE}, {TRUE})
    \/ LoopEntrySaveFails(1, trade_usdt_min)
    \/ LoopOpenCheck(1)
    \/ LoopOpenInsert(1, MaxPositions)
    \/ LoopOpenInsertPersistFails(1, MaxPositions)

SpecPersist == Init /\ [][NextPersistStep]_vars

\* ================================================================= properties
OpenBotIds(sym) ==
    {id \in DOMAIN open_positions :
        /\ open_positions[id].symbol = sym
        /\ open_positions[id].source = "bot"
        /\ open_positions[id].status = "open"}

ClosedIds == {closed_positions[i].id : i \in 1 .. Len(closed_positions)}

NoIdTwice(closed) ==
    \A i, j \in 1 .. Len(closed) : i # j => closed[i].id # closed[j].id

\* C1 (SpecSmall): in every reachable state the open set holds at most one open
\* bot position per symbol.
C1_OneOpenBotPositionPerSymbol ==
    \A sym \in Symbols : Cardinality(OpenBotIds(sym)) <= 1

\* C2 (SpecMode): in paper mode the paper balance is never negative, over
\* entries, closes, rollovers and mode toggles.
C2_PaperBalanceNonNegative ==
    paper_mode => st.paper_balance_usdt >= 0 /\ disk.st.paper_balance_usdt >= 0

\* paper mode on the second date, after the entry of a paper position was
\* debited and its close, at a loss, credited
C2_Witness ==
    /\ paper_mode
    /\ st.daily_date = 2
    /\ st.paper_balance_usdt < InitialPaperBalance
    /\ st.paper_balance_usdt > 0
    /\ \E i \in 1 .. Len(closed_positions) :
         /\ closed_positions[i].mode = "paper"
         /\ closed_positions[i].pnl_usdt < 0

C4_PnlFollowsPrice ==
    \A id \in DOMAIN open_positions :
      LET pos == open_positions[id]
      IN /\ pos.pnl_usdt = (pos.current_price - pos.entry_price) * pos.qty * StepValue
         /\ pos.current_price # pos.entry_price =>
              /\ pos.current_price \in Prices
              /\ prices[pos.symbol] > 0 => pos.current_price = prices[pos.symbol]

\* an open position after a tick away from its entry price
C4_Witness ==
    \E id \in DOMAIN open_positions :
        /\ open_positions[id].current_price # open_positions[id].entry_price
        /\ open_positions[id].pnl_usdt # 0

\* C5 (Spec): for an open bot position with trailing enabled no step lowers
\* sl_price, and a step raises it only to price * (1 - trailing%) of a price
\* that is a new peak and puts the stop above the current one.
C5_TrailingStopNeverLoosens ==
    [][\A id \in DOMAIN open_positions \cap DOMAIN open_positions' :
         LET pos == open_positions[id]
             new == open_positions'[id]
             price == prices'[pos.symbol]
         IN (pos.source = "bot" /\ pos.use_trailing) =>
              /\ new.sl_price >= pos.sl_price
              /\ new.sl_price > pos.sl_price =>
                   /\ price > pos.peak_price
                   /\ price * (100 - pos.trailing_sl_pct) > pos.sl_price
                   /\ new.sl_price = price * (100 - pos.trailing_sl_pct)
                   /\ new.peak_price = price]_vars

\* a trailing stop that has been raised above the stop set at entry
C5_Witness ==
    \E id \in DOMAIN open_positions :
        /\ open_positions[id].use_trailing
        /\ open_positions[id].sl_price
             > open_positions[id].entry_price * (100 - default_sl_pct)

\* C6 (SpecManual): close_position with an id that is not in the open set,
\* is closed already or belongs to a manual position returns None and leaves
\* the open set, the closed history and the document on file as they are;
\* no id is twice in the closed history.
C6_CloseOfOtherIdsChangesNothing ==
    /\ \A pid \in 1 .. MaxPositions + 1 : \A price \in Prices :
         LET L == [open |-> open_positions, closed |-> closed_positions,
                   st |-> st, disk |-> disk, code |-> "NONE"]
             r == close_position(L, pid, price, "MANUAL_CLOSE")
             closable == /\ pid \in DOMAIN open_positions
                         /\ open_positions[pid].status = "open"
                         /\ open_positions[pid].source = "bot"
         IN ~closable =>
              /\ ~r.ok
              /\ r.open = open_positions
              /\ r.closed = closed_positions
              /\ r.disk = disk
    /\ NoIdTwice(closed_positions)
    /\ NoIdTwice(disk.closed_positions)

\* a closed id, an open manual position and an id never handed out
C6_Witness ==
    /\ closed_positions # <<>>
    /\ \E id \in DOMAIN open_positions : open_positions[id].source = "manual"
    /\ next_id = MaxPositions

\* C7 (SpecManual): open positions have status open, the history holds
\* closed ones, the two never share an id, and an id in the history stays
\* there and never comes back into the open set, restarts included.
C7_ClosedIsFinal ==
    [][/\ \A id \in DOMAIN open_positions' : open_positions'[id].status = "open"
       /\ \A i \in 1 .. Len(closed_positions') : closed_positions'[i].status = "closed"
       /\ \A i \in 1 .. Len(closed_positions') :
            closed_positions'[i].id \notin DOMAIN open_positions'
       /\ \A id \in ClosedIds :
            /\ id \notin DOMAIN open_positions'
            /\ \E i \in 1 .. Len(closed_positions') : closed_positions'[i].id = id]_vars

\* a position closed and, after it, another one opened
C7_Witness ==
    /\ closed_positions # <<>>
    /\ open_positions # <<>>
    /\ \A id \in DOMAIN open_positions : \A c \in ClosedIds : c < id

\* C8 (SpecDay): the day reset of the rollover is applied at most once per
\* calendar date.
C8_RolloverOncePerDate ==
    \A d \in Days : rollover_count[d] <= 1

\* C9 (SpecDay): a position is opened or closed only while daily_date is the
\* current date, that is after the rollover for that date.
C9_TradeAfterRollover ==
    [][(\/ Len(closed_positions') > Len(closed_positions)
        \/ ~(DOMAIN open_positions' \subseteq DOMAIN open_positions))
         => st.daily_date = today]_vars

C11_BackoffFollowsSequence ==
    mthr.ws.pc = "sleep" => mthr.ws.delay = BackoffDelay(hist.k)

\* C12 (SpecStream): update_symbols with a list that differs from the watch-set
\* returns and leaves the lock released: in every reachable state no caller
\* of update_symbols (start_trading among them) is waiting inside it, the
\* lock is free and the message handler is not waiting for it.
C12_UpdateSymbolsReturns ==
    /\ \A c \in Callers : mthr.upd[c] = "idle"
    /\ market.lock = NoOwner
    /\ mthr.ws.pc # "blocked"

\* the stream is connected with a URL that is not the one of the watch-set
ConnectedWithOldUrl ==
    /\ market.running
    /\ mthr.ws.pc = "run"
    /\ mthr.ws.open
    /\ mthr.ws.url # StreamsUrl(market.symbols)

\* C13 (SpecStreamFair): once the watch-set has changed under an open
\* connection, a connection with the URL built from the new watch-set is
\* eventually open (or the market data has been stopped), whether or not the
\* network fails.
C13_WatchSetChangeReconnects ==
    ConnectedWithOldUrl
      ~> (~market.running \/ (mthr.ws.open /\ mthr.ws.url = StreamsUrl(market.symbols)))

\* C14 (SpecStale): a pass of the watchdog made while the stream is running and
\* the last message is older than data_timeout_sec, or none has come for
\* longer than that, reports "disconnected"; and the report that follows a
\* "disconnected" is "connected", made when the data is fresh.
C14_WatchdogReportsStaleData ==
    [][/\ (/\ mthr.watchdog = "check"
           /\ mthr'.watchdog # "check"
           /\ market.running
           /\ DataAge > data_timeout_sec)
          => (mthr'.watchdog = "wait" /\ hist'.report = "disconnected")
       /\ (hist.report = "disconnected" /\ hist'.report # "disconnected")
          => (/\ hist'.report = "connected"
              /\ now - market.last_data_time <= restored_age_sec)]_vars

\* TradingEngine._protected_today: set in __init__ and nowhere else
protected_today == FALSE

\* the status the engine's STATUS and RUNTIME_STATS events show
SurfacedStatus ==
    IF bot_status = "RUNNING" /\ protected_today THEN "PROTECTED" ELSE bot_status

\* the watchdog has reported "disconnected" and the data has not resumed
Stale ==
    /\ mthr.watchdog = "wait"
    /\ now - market.last_data_time > restored_age_sec

\* C15 (SpecStale): while the market data is stale and the engine is running,
\* the status shown is PROTECTED or PAUSED and no step opens a position.
C15_NoEntryOnStaleData ==
    [][(Stale /\ bot_status = "RUNNING")
         => /\ SurfacedStatus \in {"PROTECTED", "PAUSED"}
            /\ DOMAIN open_positions' \subseteq DOMAIN open_positions]_vars

\* C16 (SpecStopFair): a loop thread that is alive when the stop event has
\* been set terminates, whatever is called afterwards; and while the status
\* stays STOPPED the stop event and the market data do not change.
C16_StopEndsLoopThread ==
    /\ \A t \in Threads : (stop_event /\ thr[t].pc # "idle") ~> (thr[t].pc = "idle")
    /\ [][(bot_status = "STOPPED" /\ bot_status' = "STOPPED")
            => UNCHANGED <<stop_event, market>>]_vars

\* C17 (SpecIsolate): a loop thread that is going through the symbols goes to
\* its sleep only from the last of them, so every symbol with an output is
\* evaluated in the iteration whatever the others raise; and a loop thread
\* ends only when the stop event is set.
C17_SymbolFailureIsolated ==
    [][\A t \in Threads :
         /\ (thr[t].pc = "symbols" /\ thr'[t].pc = "sleep") => Len(thr[t].todo) <= 1
         /\ (thr[t].pc # "idle" /\ thr'[t].pc = "idle") => stop_event]_vars

\* the bot positions a step opens
OpenedByStep ==
    {id \in DOMAIN open_positions' \ DOMAIN open_positions :
        open_positions'[id].source = "bot"}

\* C18 (SpecRisk): when a bot position is opened on a symbol, the cooldown
\* after the last losing close and the re-entry delay of the symbol are over
\* and the open positions are below the global and the per-symbol cap; the
\* two timestamps change only in a step that closes a position, the last-loss
\* one only when the position closed at a loss.
C18_NoOpenAgainstRiskGate ==
    [][/\ \A id \in OpenedByStep :
            LET sym == open_positions'[id].symbol
            IN /\ cooldown_over_at(st.risk_meta, sym)
               /\ Cardinality(DOMAIN open_positions) < max_open_trades
               /\ Cardinality({i \in DOMAIN open_positions :
                                 open_positions[i].symbol = sym}) < max_trades_per_symbol
       /\ st'.risk_meta # st.risk_meta => Len(closed_positions') > Len(closed_positions)
       /\ st'.risk_meta.last_loss_time # st.risk_meta.last_loss_time
            => closed_positions'[1].pnl_usdt < 0]_vars

\* the entry notional of the open paper positions of the bot among ids
RECURSIVE OpenNotional(_)
OpenNotional(ids) ==
    IF ids = {} THEN 0
    ELSE LET id == Min(ids)
             pos == open_positions[id]
         IN (IF pos.source = "bot" /\ pos.mode = "paper"
             THEN Notional(pos.entry_price, pos.qty) ELSE 0)
            + OpenNotional(ids \ {id})

\* the pnl of the first n closed positions
RECURSIVE ClosedPnl(_)
ClosedPnl(n) ==
    IF n = 0 THEN 0 ELSE closed_positions[n].pnl_usdt + ClosedPnl(n - 1)

\* no loop thread is between the paper debit and the insert of its position
NoEntryInFlight == \A t \in Threads : thr[t].pc \notin {"open_check", "open_insert"}

\* C19 (SpecManual): in paper mode, whenever no entry is in flight, the paper
\* balance is the initial balance less the entry notional of the open bot
\* positions plus the pnl of the closed ones: every debit has its open
\* position and every close its proceeds, also after a restart.
C19_DebitHasPosition ==
    (paper_mode /\ NoEntryInFlight)
        => st.paper_balance_usdt + OpenNotional(DOMAIN open_positions)
             = InitialPaperBalance + ClosedPnl(Len(closed_positions))

\* the state document holds the open and the closed positions of the ledger
DocumentHolds(doc, open, closed) ==
    /\ DOMAIN LoadOpenPositions(doc) = DOMAIN open
    /\ doc.closed_positions = closed

\* C20 (SpecDurable): after every step the state document holds the open and
\* the closed positions the ledger has in memory (price updates apart), and a
\* restart brings back every position that was open or closed before it.
C20_CommittedIsDurable ==
    [][/\ DocumentHolds(disk', open_positions', closed_positions')
       /\ Restart => /\ DOMAIN open_positions' = DOMAIN open_positions
                     /\ closed_positions' = closed_positions]_vars

\* C21 (SpecRestore): the restart gives the ledger the open positions, the
\* closed history, the paper balance, the capital keys and the risk
\* timestamps of the state document, whatever was persisted.
C21_RestartRoundTrip ==
    [][Restart => /\ open_positions' = LoadOpenPositions(disk)
                  /\ closed_positions' = disk.closed_positions
                  /\ st' = disk.st]_vars

\* C22 (SpecFile): the state file always holds one complete document, also
\* after a crash inside save_state and with save_state running on two threads.
C22_StateFileComplete == CompleteDocument(fs.data[fs.state_path])

\* C23 (SpecPersist): whether or not the state file can be written, a step
\* that takes an amount off the in-memory paper balance leaves a loop thread
\* on its way to open the position bought for that amount, a step that closes
\* a position adds its pnl and its proceeds, and only the stop event ends a
\* loop thread.
C23_MemoryConsistentOnWriteFailure ==
    [][/\ st'.paper_balance_usdt < st.paper_balance_usdt
            => \E t \in Threads :
                  /\ thr'[t].pc = "open_check"
                  /\ Notional(thr'[t].entry.price, thr'[t].entry.qty)
                       = st.paper_balance_usdt - st'.paper_balance_usdt
       /\ Len(closed_positions') > Len(closed_positions)
            => /\ st'.realized_pnl_today > st.realized_pnl_today
                    \/ st'.paper_balance_usdt > st.paper_balance_usdt
               /\ DOMAIN open_positions' # DOMAIN open_positions
       /\ \A t \in Threads : (thr[t].pc # "idle" /\ thr'[t].pc = "idle") => stop_event]_vars

\* SpecLive: one loop thread of an engine that can be put in live mode, the
\* exchange accepting or refusing each order
NextLiveStep ==
    \/ PriceTick
    \/ start_trading(1)
    \/ stop_trading
    \/ \E paper \in BOOLEAN : set_paper_mode(paper)
    \/ LoopIterate(1)
    \/ DecideLive(1, {trade_usdt})
    \/ LoopOpenCheck(1)
    \/ LoopOpenInsert(1, MaxDayPositions)

SpecLive == Init /\ [][NextLiveStep]_vars

\* the orders of a call that the exchange answered with an error
FailedOrders == {i \in DOMAIN orders : ~orders[i].ok}

C31_EngineOrdersUseRetry ==
    \A i \in DOMAIN orders :
        \A answers \in [1..retries -> Answers] :
            ((answers[1] = "ok") <=> orders[i].ok)
                => /\ orders[i].attempts = safe_retry(answers).attempts
                   /\ orders[i].ok = safe_retry(answers).success

\* BinanceClient.BOT_ORDER_PREFIX; a client order id is the sequence of its
\* parts, NoClientId for an order sent without newClientOrderId
BOT_ORDER_PREFIX == "BADR_BOT_"

\* cid.startswith(BOT_ORDER_PREFIX)
StartsWithBotPrefix(cid) == Len(cid) >= 1 /\ cid[1] = BOT_ORDER_PREFIX

\* C30 (SpecLive): every order the engine has sent to the exchange, BUY or
\* SELL, carries a client order id that starts with the bot prefix.
C30_OrdersCarryBotPrefix ==
    \A i \in DOMAIN orders : StartsWithBotPrefix(orders[i].client_order_id)

\* SpecEvents: one loop thread and the manual-close dialog, with the window's
\* listener registered before the window can start the engine or close a
\* position (main_window.py wires its listeners while it is built)
NextEventStep ==
    \/ add_listener
    \/ /\ events.listening
       /\ \/ PriceTick
          \/ start_trading(1)
          \/ stop_trading
          \/ LoopIterate(1)
          \/ Decide(1, {trade_usdt_min}, {FALSE}, {TRUE})
          \/ LoopOpenCheck(1)
          \/ LoopOpenInsert(1, MaxPositions)
          \/ LoopOpenInsertPersistFails(1, MaxPositions)
          \/ \E pid \in PositionIds : ManualClose(pid, TRUE)

SpecEvents == Init /\ [][NextEventStep]_vars

\* the places of the events of one kind for one position in the log
EventsOf(kind, id) ==
    {i \in DOMAIN events.log : events.log[i].kind = kind /\ events.log[i].data = id}

\* C25 (SpecEvents): the listener has received exactly one POSITION_OPENED
\* event for every position that was opened, exactly one POSITION_CLOSED
\* event for every position that was closed and none for a position that is
\* still open, and the POSITION_OPENED event of a position is earlier in the
\* log than its POSITION_CLOSED event.
C25_OneEventPerOpenAndClose ==
    \A id \in PositionIds :
        /\ Cardinality(EventsOf("POSITION_OPENED", id)) = IF id <= next_id THEN 1 ELSE 0
        /\ Cardinality(EventsOf("POSITION_CLOSED", id)) = IF id \in ClosedIds THEN 1 ELSE 0
        /\ \A j \in EventsOf("POSITION_CLOSED", id) :
              \E i \in EventsOf("POSITION_OPENED", id) : i < j

\* two positions have been opened and one of them closed, with their events
C25_Witness ==
    /\ next_id >= 2
    /\ \E id \in ClosedIds : EventsOf("POSITION_CLOSED", id) # {}
    /\ \E id \in DOMAIN open_positions : EventsOf("POSITION_OPENED", id) # {}

\* the reason codes of a rejected ENTRY decision
EntryRejectCodes ==
    {"RISK_BLOCK", "DUPLICATE_SYMBOL", "MIN_TRADE_BLOCK", "PAPER_INSUFFICIENT_BAL",
     "QTY_NORMALIZE_ZERO"}

\* C26 (SpecEvents): when the loop thread's call for an ENTRY decision ends
\* in a rejection, the listener receives one more event and that event
\* carries the reason code; the call debits no balance, leaves no entry
\* pending and opens no position.
C26_RejectedEntryIsReported ==
    [][\A t \in Threads :
         thr[t].pc = "symbols" =>
            LET r == apply_ai_decision(Head(thr[t].todo), "ENTRY", trade_usdt_min, FALSE,
                                       TRUE, DOMAIN open_positions, TRUE)
            IN (/\ LoopSymbol(t, "ENTRY", trade_usdt_min, FALSE, TRUE,
                              DOMAIN open_positions, TRUE)
                /\ r.L.code \in EntryRejectCodes) =>
                  /\ Len(events'.log) = Len(events.log) + 1
                  /\ events'.log[Len(events'.log)].data = r.L.code
                  /\ st'.paper_balance_usdt >= st.paper_balance_usdt
                  /\ thr'[t].pc \notin {"open_check", "open_insert"}
                  /\ DOMAIN open_positions' \subseteq DOMAIN open_positions]_vars

\* an entry price, a price below the stop of a position entered at it
\* (62720) and 103.5 % of it, above the take-profit (65920)
ExitPrices == {62000, 64000, 66240}

\* SpecExit: bot and manual positions, tickers that reach the stops and the
\* take-profits, and calls of check_exit_recommendations
NextExitStep ==
    \/ \E sym \in Symbols : \E price \in ExitPrices : Tick(sym, price)
    \/ start_trading(1)
    \/ LoopIterate(1)
    \/ \E tr \in BOOLEAN : LoopSymbol(1, "ENTRY", trade_usdt_min, tr, TRUE, {}, TRUE)
    \/ LoopOpenCheck(1)
    \/ LoopOpenInsert(1, MaxDayPositions)
    \/ \E sym \in Symbols : OpenManual(sym)
    \/ \E sym \in Symbols : CheckExit(sym)

SpecExit == Init /\ [][NextExitStep]_vars

\* the open bot positions on a symbol
OpenBotOn(sym) ==
    {id \in DOMAIN open_positions :
        /\ open_positions[id].status = "open"
        /\ open_positions[id].symbol = sym
        /\ open_positions[id].source = "bot"}

\* those at or above their take-profit price
AtTakeProfit(sym, price) ==
    {id \in OpenBotOn(sym) :
        open_positions[id].tp_price # 0 /\ price * 100 >= open_positions[id].tp_price}

\* the remaining ones at or below their stop price
AtStop(sym, price) ==
    {id \in OpenBotOn(sym) \ AtTakeProfit(sym, price) :
        open_positions[id].sl_price # 0 /\ price * 100 <= open_positions[id].sl_price}

\* C27 (SpecExit): a call of check_exit_recommendations(symbol, price)
\* returns "TP" for exactly the open bot positions on the symbol at or above
\* their take-profit price, "TRAILING_SL" or "SL" (with and without trailing)
\* for exactly the remaining ones at or below their stop price, nothing for
\* any other position, and changes neither the positions nor the ledger.
C27_ExitRecommendations ==
    [][\A sym \in Symbols : CheckExit(sym) =>
         LET price == prices[sym]
             out == exit_recs'
         IN /\ DOMAIN out = AtTakeProfit(sym, price) \cup AtStop(sym, price)
            /\ \A id \in AtTakeProfit(sym, price) : out[id] = "TP"
            /\ \A id \in AtStop(sym, price) :
                  out[id] = IF open_positions[id].use_trailing THEN "TRAILING_SL" ELSE "SL"
            /\ UNCHANGED <<open_positions, closed_positions, st, disk, prices>>]_vars

\* the call at 103.5 % of the entry price has returned TP for a position,
\* with a manual position open that it has not returned
C27_Witness ==
    /\ \E id \in DOMAIN exit_recs :
          /\ exit_recs[id] = "TP"
          /\ id \in DOMAIN open_positions
          /\ prices[open_positions[id].symbol] * 1000 = open_positions[id].entry_price * 1035
    /\ \E id \in DOMAIN open_positions :
          open_positions[id].source = "manual" /\ id \notin DOMAIN exit_recs

\* the scores of a strategy output: 35 passes the relaxed score bar only,
\* 45 passes both
Scores == {35, 45}

\* SpecWarmup: the clock, the engine started and stopped, strategy outputs
\* and evaluations
NextWarmupStep ==
    \/ ClockTick
    \/ start_trading(1)
    \/ stop_trading
    \/ \E sym \in Symbols : \E signal \in Signals :
          on_kline_update(sym, base_interval, min_history, signal, "UP")
    \/ \E sym \in Symbols : \E score \in Scores : evaluate_symbol(sym, score)

SpecWarmup == Init /\ [][NextWarmupStep]_vars

\* the step is an evaluation of a strategy output, not a cached decision
Evaluates(sym, score) ==
    /\ evaluate_symbol(sym, score)
    /\ ~ai'.returned.cached
    /\ \E i \in DOMAIN outputs : outputs[i] = sym

\* C28 (SpecWarmup): an evaluation made less than the warmup window after
\* the engine start uses a minimum score and a minimum number of valid
\* signals that are both below their configured values; an evaluation made
\* later uses the configured values.
C28_WarmupRelaxesBothGates ==
    [][\A sym \in Symbols : \A score \in Scores :
         Evaluates(sym, score) =>
            IF time_now - ai.boot_ts < warmup_relax_sec
            THEN ai'.min_score < min_score_base /\ ai'.min_signals < min_signals_base
            ELSE ai'.min_score = min_score_base /\ ai'.min_signals = min_signals_base]_vars

\* the proceeds at the current prices of the paper-opened positions among ids
RECURSIVE PaperProceeds(_)
PaperProceeds(ids) ==
    IF ids = {} THEN 0
    ELSE LET id == Min(ids)
             pos == open_positions[id]
         IN (IF pos.mode = "paper" THEN Notional(prices[pos.symbol], pos.qty) ELSE 0)
            + PaperProceeds(ids \ {id})

\* C36 (SpecMode): when bot positions are closed, the paper balance grows by
\* the proceeds of those opened in paper mode and by nothing else, and a SELL
\* order is sent for a position exactly when it was opened in live mode,
\* whatever set_paper_mode was called with since the opening.
C36_CloseFollowsOpeningMode ==
    [][LET gone == {id \in DOMAIN open_positions :
                      id \notin DOMAIN open_positions' /\ open_positions[id].source = "bot"}
       IN gone # {} =>
            /\ st'.paper_balance_usdt = st.paper_balance_usdt + PaperProceeds(gone)
            /\ \A id \in gone :
                  (\E i \in DOMAIN orders' : orders'[i].side = "SELL" /\ orders'[i].pid = id)
                     <=> open_positions[id].mode = "live"]_vars

\* SpecCooldown: the clock, strategy outputs for every symbol, evaluations of
\* every symbol
NextCooldownStep ==
    \/ ClockTick
    \/ \E sym \in AllSymbols : \E signal \in Signals :
          on_kline_update(sym, base_interval, min_history, signal, "UP")
    \/ \E sym \in AllSymbols : evaluate_symbol(sym, 45)

SpecCooldown == Init /\ [][NextCooldownStep]_vars

\* the decision a full evaluation of the symbol gives in the current state
FullDecision(sym, score) ==
    IF \A i \in DOMAIN outputs : outputs[i] # sym THEN "HOLD"
    ELSE GateAction(strategy.signal[sym], score, MinScore(ai, time_now),
                    MinSignals(ai, time_now))

\* C32 (SpecCooldown): evaluate_symbol called for a symbol less than the
\* cooldown after the last full evaluation of that symbol returns the decision
\* of that evaluation, whatever the signal is now, and leaves the time of the
\* last full evaluation as it is; a call after the window evaluates the
\* current signal and restarts the window; the cache and the window of the
\* other symbols are untouched.
C32_CooldownReturnsPrevious ==
    [][\A sym \in AllSymbols :
         evaluate_symbol(sym, 45) =>
            /\ ai'.returned.symbol = sym
            /\ IF ai.cache[sym] # None /\ time_now - ai.last_eval_ts[sym] < eval_cooldown_sec
               THEN /\ ai'.returned.action = ai.cache[sym]
                    /\ ai'.cache[sym] = ai.cache[sym]
                    /\ ai'.last_eval_ts[sym] = ai.last_eval_ts[sym]
               ELSE /\ ai'.returned.action = FullDecision(sym, 45)
                    /\ ai'.cache[sym] = FullDecision(sym, 45)
                    /\ ai'.last_eval_ts[sym] = time_now
            /\ \A other \in AllSymbols \ {sym} :
                  /\ ai'.cache[other] = ai.cache[other]
                  /\ ai'.last_eval_ts[other] = ai.last_eval_ts[other]]_vars

\* a decision came from the cache, at a later second than its evaluation,
\* and differs from what the current signal gives
C32_Witness ==
    \E sym \in AllSymbols :
        /\ ai.returned = [symbol |-> sym, action |-> ai.cache[sym], cached |-> TRUE]
        /\ time_now - ai.last_eval_ts[sym] = eval_cooldown_sec - 1
        /\ ai.returned.action # FullDecision(sym, 45)

\* SpecPreload: the market data started and stopped, the watch-set changed by
\* the remote command channel, and the preloads of the started threads
NextPreloadStep ==
    \/ \E p \in Preloaders : StartAsync(p)
    \/ market_data_stop
    \/ \E wl \in WatchLists : cmd_watch(wl)
    \/ \E p \in Preloaders : PreloadCheck(p)
    \/ \E p \in Preloaders : PreloadAcquire(p)
    \/ \E p \in Preloaders : PreloadCopy(p)
    \/ \E p \in Preloaders : \E ok \in BOOLEAN : PreloadRequest(p, ok, FinalClose)
    \/ \E p \in Preloaders : PreloadRaises(p)
    \/ \E p \in Preloaders : PreloadFinally(p)
    \/ \E p \in Preloaders : AfterPreload(p)

SpecPreload == Init /\ [][NextPreloadStep]_vars

\* the threads inside the guarded part of _preload_history
Preloading(m) == {p \in Preloaders : m.pre[p].pc \in {"copy", "fetch", "finally"}}

\* C33 (SpecPreload): at most one thread is inside the guarded part of
\* _preload_history, and the in-flight flag is set exactly then; a call that
\* finds the flag set returns without a request and leaves the flag and the
\* candles alone; when the running preload leaves the guarded part, after
\* its requests or on an exception, the flag is cleared.
C33_OnePreloadAtATime ==
    [][/\ Cardinality(Preloading(mthr')) <= 1
       /\ market'.preload_inflight <=> Preloading(mthr') # {}
       /\ \A p \in Preloaders :
             /\ mthr.pre[p].pc = "acquire" /\ market.preload_inflight /\ mthr'.pre[p] # mthr.pre[p]
                  => /\ mthr'.pre[p].pc = "skip"
                     /\ market' = market
             /\ p \in Preloading(mthr) /\ p \notin Preloading(mthr')
                  => ~market'.preload_inflight]_vars

\* one preload is making its requests and a second call has returned at
\* once; a preload that failed has cleared the flag
C33_Witness ==
    \E p, q \in Preloaders :
        /\ mthr.pre[p].pc = "fetch" /\ mthr.pre[p].left > 0
        /\ mthr.pre[q].pc = "skip"
        /\ market.preload_inflight

\* SpecCandles: the clock, the market data started, its preload and the
\* kline stream
NextCandlesStep ==
    \/ ClockTick
    \/ \E p \in Preloaders : StartAsync(p)
    \/ \E p \in Preloaders : PreloadCheck(p)
    \/ \E p \in Preloaders : PreloadAcquire(p)
    \/ \E p \in Preloaders : PreloadCopy(p)
    \/ \E p \in Preloaders : \E ok \in BOOLEAN : \E close \in Prices :
          PreloadRequest(p, ok, close)
    \/ \E p \in Preloaders : PreloadFinally(p)
    \/ \E p \in Preloaders : AfterPreload(p)
    \/ WsConnect
    \/ WsOpen
    \/ \E t \in {now - 1, now} : \E close \in Prices : \E x \in BOOLEAN :
          on_kline_message(t, close, x, "HOLD", {})

SpecCandles == Init /\ [][NextCandlesStep]_vars

\* C34 (SpecCandles): a candle that is in the list with is_closed set is the
\* same after every step as long as its open_time is in the list, no
\* open_time is in the list twice, and the list has at most history_limit
\* candles.
C34_ClosedCandlesImmutable ==
    [][LET old == market.klines
           new == market'.klines
       IN /\ \A i \in DOMAIN old : \A j \in DOMAIN new :
                old[i].is_closed /\ new[j].open_time = old[i].open_time
                   => new[j] = old[i]
          /\ \A i, j \in DOMAIN new : new[i].open_time = new[j].open_time => i = j
          /\ Len(new) <= history_limit]_vars

\* SpecListeners: the engine started, the stream connected, tickers, klines
\* and positions taken over from the account, with listeners that raise
NextListenersStep ==
    \/ start_trading(1)
    \/ StartPreload
    \/ RebuildStreamsUrl("start")
    \/ WsConnect
    \/ \E raising \in SUBSET Raisers : WsOpenListeners(raising)
    \/ \E sym \in Symbols : \E price \in Prices : \E raising \in SUBSET Raisers :
          on_message_listeners(sym, price, raising)
    \/ \E close \in Prices : \E raising \in SUBSET Raisers :
          on_kline_message(now, close, FALSE, "HOLD", raising)
    \/ \E sym \in Symbols : \E raising \in SUBSET Raisers : OpenManualListeners(sym, raising)

SpecListeners == Init /\ [][NextListenersStep]_vars

\* C35 (SpecListeners): at an event at which a listener raises, every
\* registered listener of that kind is called, in a place where the caller
\* does not hold the lock; the update that caused the event is kept: the
\* price and the marked positions with their document for a ticker, the
\* candle for a kline, the new position and its document for an opening, the
\* restarted backoff for a connection; and this holds for every message,
\* whatever has been raised before.
C35_ListenerFailureContained ==
    [][/\ \A kind \in ListenerKinds :
             events'.failed[kind] # events.failed[kind]
                => /\ events'.failed[kind].invoked = Listeners[kind]
                   /\ ~events'.failed[kind].locked
       /\ \A raising \in SUBSET Raisers :
             /\ \A sym \in Symbols : \A price \in Prices :
                   on_message_listeners(sym, price, raising) /\ market.lock = NoOwner
                      => /\ prices'[sym] = price
                         /\ \A id \in DOMAIN open_positions :
                               open_positions[id].symbol = sym
                                  => open_positions'[id].current_price = price
                         /\ disk'.open_positions = open_positions'
             /\ \A close \in Prices :
                   on_kline_message(now, close, FALSE, "HOLD", raising) /\ market.lock = NoOwner
                      => /\ market'.klines # <<>>
                         /\ market'.klines[Len(market'.klines)] = Candle(now, close, FALSE)
             /\ \A sym \in Symbols :
                   OpenManualListeners(sym, raising)
                      => /\ next_id' \in DOMAIN open_positions'
                         /\ next_id' \in DOMAIN disk'.open_positions
             /\ WsOpenListeners(raising)
                   => mthr'.ws.open /\ market'.reconnect_index = 0]_vars

\* the window's position listener has raised, the listener registered after
\* it has been called, and the position is in the map and at the ticker's
\* price
C35_Witness ==
    /\ events.failed["position"].raised = {"gui"}
    /\ events.failed["position"].invoked = <<"engine", "gui", "telegram">>
    /\ events.failed["price"].raised = {"gui"}
    /\ \E id \in DOMAIN open_positions :
          /\ open_positions[id].current_price = prices[open_positions[id].symbol]
          /\ open_positions[id].current_price # open_positions[id].entry_price

\* the kline intervals of the stream and one that is neither the base
\* interval nor 1h; the history lengths around the minimum and at the limit
KlineIntervals == {"15m", "1h", "5m"}
HistoryLengths == {0, min_history - 1, min_history, history_limit}

\* SpecStrategy: kline updates of every interval and history length
NextStrategyStep ==
    \/ \E sym \in AllSymbols : \E interval \in KlineIntervals : \E n \in HistoryLengths :
         \E signal \in Signals : \E trend \in Trends :
            on_kline_update(sym, interval, n, signal, trend)

SpecStrategy == Init /\ [][NextStrategyStep]_vars

\* the largest window of the indicators
LargestWindow == MaxOf({rsi_period, bb_period, macd_slow, ema_slow})

\* C29 (SpecStrategy): a kline update stores its signal for the symbol and
\* hands it to the listeners exactly when its interval is the base interval
\* and it has at least the largest indicator window of closes; with that
\* much history a 1h update changes the 1h trend of the symbol and nothing
\* else, and any other update changes nothing and notifies nobody.
C29_SignalOnlyFromBaseInterval ==
    [][\A sym \in AllSymbols : \A interval \in KlineIntervals : \A n \in HistoryLengths :
         \A signal \in Signals : \A trend \in Trends :
            on_kline_update(sym, interval, n, signal, trend) =>
               IF interval = base_interval /\ n >= LargestWindow
               THEN /\ strategy'.signal = [strategy.signal EXCEPT ![sym] = signal]
                    /\ strategy'.notified = [symbol |-> sym, signal |-> signal]
                    /\ strategy'.trend_1h = strategy.trend_1h
               ELSE IF interval = "1h" /\ n >= LargestWindow
               THEN /\ strategy' = [strategy EXCEPT !.trend_1h[sym] = trend]
                    /\ outputs' = outputs
               ELSE UNCHANGED <<strategy, outputs>>]_vars

\* a signal has been replaced by an update of the base interval, a 1h update
\* has set the trend of the same symbol, and the listeners were told of the
\* signal
C29_Witness ==
    \E sym \in AllSymbols :
        /\ strategy.signal[sym] = "ENTRY"
        /\ strategy.trend_1h[sym] = "DOWN"
        /\ strategy.notified = [symbol |-> sym, signal |-> "ENTRY"]

\* ============================== update_price against close_position
\* PositionManager holds no lock: update_price runs on the ingestion thread
\* (the price listener _on_price), close_position on the thread that calls
\* _execute_close.  The position objects are shared: the dict that
\* close_position puts into closed_positions is the one update_price has in
\* hand.

\* the closed position with this id, as an index of closed_positions (0: none)
ClosedIndex(closed, id) ==
    IF \E i \in DOMAIN closed : closed[i].id = id
    THEN CHOOSE i \in DOMAIN closed : closed[i].id = id
    ELSE 0

\* update_price up to the for statement: the price map has the price, the
\* iterator over open_positions.values() is created
UpdatePriceBegin(sym, price) ==
    /\ mthr.tick.pc = "idle"
    /\ prices' = [prices EXCEPT ![sym] = price]
    /\ mthr' = [mthr EXCEPT !.tick =
                  IF price <= 0 THEN TickIdle
                  ELSE [pc |-> "next", sym |-> sym, price |-> price,
                        todo |-> DOMAIN open_positions,
                        size |-> Cardinality(DOMAIN open_positions),
                        id |-> 0, changed |-> FALSE, error |-> FALSE]]
    /\ UNCHANGED <<engine_vars, open_positions, disk, now, watchlist, outputs, market,
                   hist, fs, orders, events, exit_recs, ai, strategy>>

\* the for statement asks the iterator for the next position and line 180
\* tests it: a dict whose size has changed raises RuntimeError, which
\* _on_price swallows; the end of the loop persists when a position changed
UpdatePriceNext ==
    /\ mthr.tick.pc = "next"
    /\ LET k == mthr.tick
           left == k.todo \cap DOMAIN open_positions
           id == Min(left)
       IN IF Cardinality(DOMAIN open_positions) # k.size
          THEN /\ mthr' = [mthr EXCEPT !.tick = [TickIdle EXCEPT !.error = TRUE]]
               /\ disk' = disk
          ELSE IF left = {}
          THEN /\ mthr' = [mthr EXCEPT !.tick = TickIdle]
               /\ disk' = IF k.changed THEN Doc(open_positions, closed_positions, st)
                          ELSE disk
          ELSE /\ disk' = disk
               /\ mthr' = [mthr EXCEPT !.tick =
                            IF open_positions[id].symbol = k.sym
                               /\ open_positions[id].status = "open"
                            THEN [k EXCEPT !.pc = "write", !.id = id, !.todo = left \ {id}]
                            ELSE [k EXCEPT !.todo = left \ {id}]]
    /\ UNCHANGED <<engine_vars, prices, open_positions, now, watchlist, outputs, market,
                   hist, fs, orders, events, exit_recs, ai, strategy>>

\* lines 183-203 on the position in hand, wherever close_position has put
\* it in the meantime: the fields are written and the UPDATED event sent
UpdatePriceWrite ==
    /\ mthr.tick.pc = "write"
    /\ LET k == mthr.tick
           i == ClosedIndex(closed_positions, k.id)
       IN /\ open_positions' =
                IF k.id \in DOMAIN open_positions
                THEN [open_positions EXCEPT ![k.id] = UpdatePosition(@, k.price)]
                ELSE open_positions
          /\ closed_positions' =
                IF k.id \notin DOMAIN open_positions /\ i # 0
                THEN [closed_positions EXCEPT ![i] = UpdatePosition(@, k.price)]
                ELSE closed_positions
          /\ mthr' = [mthr EXCEPT !.tick = [k EXCEPT !.pc = "next", !.id = 0,
                                                     !.changed = TRUE]]
    /\ UNCHANGED <<today, paper_mode, bot_status, stop_event, thr, next_id, st,
                   rollover_count, split_count>>
    /\ UNCHANGED <<prices, disk, now, watchlist, outputs, market, hist, fs, orders,
                   events, exit_recs, ai, strategy>>

\* the caller of _execute_close reads the price it will pass (line 468 of
\* _apply_ai_decision, line 1431 of the main window); the mark to market,
\* the recommendations and the closes of other positions come before the call
ReadLastPrice(pid) ==
    /\ mthr.closing.pc = "idle"
    /\ pid \in DOMAIN open_positions
    /\ prices[open_positions[pid].symbol] > 0
    /\ mthr' = [mthr EXCEPT !.closing =
                  [pc |-> "call", pid |-> pid,
                   price |-> prices[open_positions[pid].symbol]]]
    /\ UNCHANGED <<engine_vars, prices, open_positions, disk, now, watchlist, outputs,
                   market, hist, fs, orders, events, exit_recs, ai, strategy>>

\* _execute_close up to the return of close_position (lines 650-675): the
\* guards, the live SELL order, and close_position with its two writes
ExecuteCloseBegin(sell_ok) ==
    /\ mthr.closing.pc = "call"
    /\ LET c == mthr.closing
           pid == c.pid
           r == close_position([open |-> open_positions, closed |-> closed_positions,
                                st |-> st, disk |-> disk], pid, c.price, "MANUAL_CLOSE")
           sells == ~paper_mode /\ HasClient(paper_mode)
       IN IF \/ pid \notin DOMAIN open_positions
             \/ open_positions[pid].source # "bot"
             \/ open_positions[pid].qty <= 0
          THEN /\ mthr' = [mthr EXCEPT !.closing = NoClose]
               /\ UNCHANGED <<open_positions, closed_positions, disk, events, orders>>
          ELSE IF sells /\ ~sell_ok
          THEN /\ mthr' = [mthr EXCEPT !.closing = NoClose]
               /\ orders' = Append(orders, Order(open_positions[pid].symbol, "SELL",
                                                 pid, FALSE))
               /\ UNCHANGED <<open_positions, closed_positions, disk, events>>
          ELSE /\ open_positions' = r.open
               /\ closed_positions' = r.closed
               /\ disk' = r.disk
               /\ events' = IF r.ok THEN on_position_event(events, "CLOSED", pid)
                            ELSE events
               /\ orders' = IF sells
                            THEN Append(orders, Order(open_positions[pid].symbol, "SELL",
                                                      pid, TRUE))
                            ELSE orders
               /\ mthr' = [mthr EXCEPT !.closing =
                             IF r.ok THEN [c EXCEPT !.pc = "closed"] ELSE NoClose]
    /\ UNCHANGED <<today, paper_mode, bot_status, stop_event, thr, next_id, st,
                   rollover_count, split_count>>
    /\ UNCHANGED <<prices, now, watchlist, outputs, market, hist, fs, exit_recs, ai,
                   strategy>>

\* (exit_price - entry_price) * qty of the position being closed
ClosePnlFromExitPrice(closed, c) ==
    LET pos == closed[ClosedIndex(closed, c.pid)]
    IN PnlUsdt(c.price, pos.entry_price, pos.qty)

\* line 677: pnl = closed.get("pnl_usdt"), read from the dict that
\* close_position has returned
ClosePnl(closed, c) == closed[ClosedIndex(closed, c.pid)].pnl_usdt

\* _execute_close after close_position (lines 677-692): the PnL goes to the
\* day's total and to the risk state, the proceeds to the paper balance
ExecuteCloseLedger ==
    /\ mthr.closing.pc = "closed"
    /\ LET c == mthr.closing
           pos == closed_positions[ClosedIndex(closed_positions, c.pid)]
           pnl == ClosePnl(closed_positions, c)
           s == [st EXCEPT
                   !.realized_pnl_today = @ + pnl,
                   !.paper_balance_usdt = IF paper_mode THEN @ + Notional(c.price, pos.qty)
                                          ELSE @,
                   !.risk_meta = on_position_closed(@, pos.symbol, pnl)]
       IN /\ st' = s
          /\ disk' = Doc(open_positions, closed_positions, s)
    /\ mthr' = [mthr EXCEPT !.closing = NoClose]
    /\ UNCHANGED <<today, paper_mode, bot_status, stop_event, thr, closed_positions,
                   next_id, rollover_count, split_count>>
    /\ UNCHANGED <<prices, open_positions, now, watchlist, outputs, market, hist, fs,
                   orders, events, exit_recs, ai, strategy>>

\* SpecRace: the loop opens positions, ticks arrive on the ingestion thread,
\* positions are closed by _execute_close
NextRaceStep ==
    \/ \E sym \in Symbols : \E price \in Prices : UpdatePriceBegin(sym, price)
    \/ UpdatePriceNext
    \/ UpdatePriceWrite
    \/ start_trading(1)
    \/ LoopIterate(1)
    \/ Decide(1, {trade_usdt}, {FALSE}, {TRUE})
    \/ LoopOpenCheck(1)
    \/ LoopOpenInsert(1, MaxPositions)
    \/ \E pid \in PositionIds : ReadLastPrice(pid)
    \/ ExecuteCloseBegin(TRUE)
    \/ ExecuteCloseLedger

SpecRace == Init /\ [][NextRaceStep]_vars

\* C37 (SpecRace): a position that is closed keeps its current_price and its
\* pnl_usdt, the PnL that _execute_close adds to realized_pnl_today is
\* (exit_price - entry_price) * qty of the position it has closed, and no
\* call of update_price ends because the map changed size under its loop.
C37_PositionMapExclusive ==
    [][/\ \A i \in DOMAIN closed_positions :
            LET j == ClosedIndex(closed_positions', closed_positions[i].id)
            IN /\ j # 0
               /\ closed_positions'[j].current_price = closed_positions[i].current_price
               /\ closed_positions'[j].pnl_usdt = closed_positions[i].pnl_usdt
       /\ ExecuteCloseLedger =>
            st'.realized_pnl_today - st.realized_pnl_today
               = ClosePnlFromExitPrice(closed_positions, mthr.closing)
       /\ ~mthr'.tick.error]_vars

\* C38 (SpecSmall): the engine staying in paper mode, whenever no entry is
\* between its debit and its insert, the paper balance plus the entry
\* notional of the open bot positions is the initial paper balance plus the
\* pnl of the closed positions.
C38_PaperCapitalConserved ==
    NoEntryInFlight
        => st.paper_balance_usdt + OpenNotional(DOMAIN open_positions)
             = InitialPaperBalance + ClosedPnl(Len(closed_positions))

\* the pnl of the n newest records of a history
RECURSIVE PnlOfNewest(_, _)
PnlOfNewest(closed, n) ==
    IF n = 0 THEN 0 ELSE closed[n].pnl_usdt + PnlOfNewest(closed, n - 1)

\* C39 (SpecDay): realized_pnl_today follows the closes since the rollover: a
\* step that closes positions adds the pnl of each of them once, and any
\* other step leaves the total alone or, when it moves daily_date to a new
\* date, sets it to 0.
C39_RealizedPnlCountsEachClose ==
    [][LET new == Len(closed_positions') - Len(closed_positions)
       IN IF new > 0
          THEN st'.realized_pnl_today
                  = st.realized_pnl_today + PnlOfNewest(closed_positions', new)
          ELSE \/ st'.realized_pnl_today = st.realized_pnl_today
               \/ /\ st'.realized_pnl_today = 0
                  /\ st'.daily_date # st.daily_date]_vars

\* C40 (Spec): in paper mode, for every price and balance the engine
\* reaches and every entry request, the notional of the normalized quantity
\* is not above the amount asked for (the request clipped to the balance),
\* and the entry is not rejected with PAPER_INSUFFICIENT_BAL.
C40_NormalizedNotionalWithinRequest ==
    \A sym \in Symbols : \A req \in RequestedTradeUsdt :
      LET bal == st.paper_balance_usdt
          last == prices[sym]
          amount == ClipRequest(req, bal)
          qty == normalize_quantity(paper_mode, amount, last)
          r == apply_ai_decision(sym, "ENTRY", req, FALSE, TRUE, {}, TRUE)
      IN (paper_mode /\ last > 0 /\ bal > 0) =>
           /\ Notional(last, qty) <= amount
           /\ r.L.code # "PAPER_INSUFFICIENT_BAL"

====
